---- MODULE Spec2Model ----
(***************************************************************************)
(* A model of the TeamCity REST client (src/src/client/teamcity-client.ts)  *)
(* and of the error helpers it uses (src/src/utils/security.ts).            *)
(*                                                                         *)
(* Strings are sequences of one-character strings, so that truncation,     *)
(* character stripping, splitting and pattern tests are computed the way   *)
(* the code computes them.  The server is the environment: every request   *)
(* handed to the transport is answered either by a transport-level failure *)
(* (no response: the axios promise rejects and the response interceptor    *)
(* runs) or by an HTTP response of any status below 600, which the         *)
(* transport accepts (validateStatus, teamcity-client.ts:55).              *)
(***************************************************************************)
EXTENDS Integers, Sequences, FiniteSets, TLC

VARIABLES
    pc,       \* position of the running operation ("idle", an await point, "done")
    args,     \* the arguments of the operation in progress
    calls,    \* the client methods get/post/delete/getText/getBinary invoked so far
    sent,     \* the requests handed to the transport (axios) so far
    replies,  \* the server's answers to the requests of sent, in order
    held,     \* values the operation keeps across awaits (caught errors)
    outcome   \* what the operation gave its caller: pending, a return or a raise

vars == <<pc, args, calls, sent, replies, held, outcome>>

----------------------------------------------------------------------------
(* Strings                                                                 *)

Min(a, b) == IF a < b THEN a ELSE b
Max(a, b) == IF a > b THEN a ELSE b

UpperChars == <<"A","B","C","D","E","F","G","H","I","J","K","L","M",
                "N","O","P","Q","R","S","T","U","V","W","X","Y","Z">>
LowerChars == <<"a","b","c","d","e","f","g","h","i","j","k","l","m",
                "n","o","p","q","r","s","t","u","v","w","x","y","z">>
DigitChars == <<"0","1","2","3","4","5","6","7","8","9">>

Range(s) == {s[i] : i \in 1..Len(s)}

\* String.prototype.toLowerCase on one character (the /i flag of a RegExp)
ToLower(c) ==
    IF c \in Range(UpperChars)
    THEN LowerChars[CHOOSE i \in 1..26 : UpperChars[i] = c]
    ELSE c

\* s.substring(0, n)
Substring0(s, n) == SubSeq(s, 1, Min(Len(s), n))

\* lit occurs in s at position i, compared case-insensitively when ci
MatchAt(s, i, lit, ci) ==
    /\ i >= 1
    /\ i + Len(lit) - 1 <= Len(s)
    /\ \A j \in 1..Len(lit) :
          IF ci THEN ToLower(s[i + j - 1]) = ToLower(lit[j])
                ELSE s[i + j - 1] = lit[j]

\* RegExp(lit).test(s) for a literal pattern
Contains(s, lit, ci) == \E i \in 1..Len(s) : MatchAt(s, i, lit, ci)

\* RegExp("[...]").test(s) for a character class
ContainsAny(s, class) == \E i \in 1..Len(s) : s[i] \in class

\* s.replace(/[class]/g, '') and s.replace(/[^class]/g, '')
Remove(s, class) == SelectSeq(s, LAMBDA c : c \notin class)

Keep(s, class) == SelectSeq(s, LAMBDA c : c \in class)

\* the indices 1..n in order
Indices(n) == [i \in 1..n |-> i]

\* s.split(sep) for a one-character separator: the sequence of the parts
Split(s, sep) ==
    LET at == SelectSeq(Indices(Len(s)), LAMBDA i : s[i] = sep)
    IN [k \in 1..(Len(at) + 1) |->
           SubSeq(s, IF k = 1 THEN 1 ELSE at[k - 1] + 1,
                     IF k = Len(at) + 1 THEN Len(s) ELSE at[k] - 1)]

\* parts.join(sep), the parts from..to of the sequence (halving, so that long
\* sequences need no deep recursion)
RECURSIVE JoinRange(_, _, _, _)
JoinRange(parts, sep, from, to) ==
    IF from > to THEN <<>>
    ELSE IF from = to THEN parts[from]
    ELSE LET mid == (from + to) \div 2
         IN JoinRange(parts, sep, from, mid) \o sep \o JoinRange(parts, sep, mid + 1, to)

Join(parts, sep) == JoinRange(parts, sep, 1, Len(parts))

\* a string of n copies of the character c
Repeat(c, n) == [i \in 1..n |-> c]

----------------------------------------------------------------------------
(* Endpoint Validator                                                      *)

MaxEndpointLength == 500

\* The grave accent cannot be written inside a TLA+ string: this atom is that
\* one character.
Backtick == "GRAVE"

PathInjectionChars == {"<", ">", "'", "\"", ";", "&", "|", Backtick, "$", "(", ")"}
QueryInjectionChars == {"<", ">", "'", "\"", Backtick, ";", "|", "$"}

JavascriptScheme == <<"j","a","v","a","s","c","r","i","p","t",":">>
DataScheme == <<"d","a","t","a",":">>
FileScheme == <<"f","i","l","e",":">>

dangerousPathPatterns(path) ==
    \/ Contains(path, <<".", ".">>, FALSE)
    \/ ContainsAny(path, PathInjectionChars)
    \/ Contains(path, JavascriptScheme, TRUE)
    \/ Contains(path, DataScheme, TRUE)
    \/ Contains(path, FileScheme, TRUE)

dangerousQueryPatterns(queryString) ==
    \/ ContainsAny(queryString, QueryInjectionChars)
    \/ Contains(queryString, JavascriptScheme, TRUE)
    \/ Contains(queryString, DataScheme, TRUE)
    \/ Contains(queryString, FileScheme, TRUE)

\* validateEndpoint without its length limit
validateEndpoint_noLengthLimit(endpoint) ==
    IF endpoint = <<>> THEN "empty"
    ELSE LET parts == Split(endpoint, "?")
         IN IF parts[1] # <<>> /\ dangerousPathPatterns(parts[1]) THEN "unsafe path"
            ELSE IF Len(parts) >= 2 /\ parts[2] # <<>> /\ dangerousQueryPatterns(parts[2])
                 THEN "unsafe query"
            ELSE "ok"

\* "ok", or the reason validateEndpoint throws
validateEndpoint(endpoint) ==
    IF endpoint = <<>> THEN "empty"
    ELSE IF Len(endpoint) > MaxEndpointLength THEN "too long"
    ELSE LET parts == Split(endpoint, "?")
             path == parts[1]
             \* [path, queryString] = endpoint.split(?): the first two parts only
             hasQuery == Len(parts) >= 2
         IN IF path # <<>> /\ dangerousPathPatterns(path) THEN "unsafe path"
            ELSE IF hasQuery /\ parts[2] # <<>> /\ dangerousQueryPatterns(parts[2])
                 THEN "unsafe query"
            ELSE "ok"

----------------------------------------------------------------------------
(* JavaScript values                                                       *)
(* A value is a record of one shape: t is the type tag, s the text of a    *)
(* string, n the number, kids the entries of an object (key k, value v) in *)
(* iteration order or the elements of an array (k empty).  Object keys of  *)
(* the model are never integer-like, so iteration order is insertion order.*)

Value(t, s, n, kids) == [t |-> t, s |-> s, n |-> n, kids |-> kids]
Str(s) == Value("string", s, 0, <<>>)
Num(n) == Value("number", <<>>, n, <<>>)
NaN == Value("NaN", <<>>, 0, <<>>)            \* typeof "number", not finite
Infinity == Value("Infinity", <<>>, 0, <<>>)  \* typeof "number", not finite
Bool(b) == Value("boolean", <<>>, IF b THEN 1 ELSE 0, <<>>)
Undefined == Value("undefined", <<>>, 0, <<>>)
Null == Value("null", <<>>, 0, <<>>)
\* a value of another type (bigint, symbol, function) whose String() is s
Other(s) == Value("other", s, 0, <<>>)
Arr(items) == Value("array", <<>>, 0, [i \in 1..Len(items) |-> [k |-> <<>>, v |-> items[i]]])
Obj(fields) == Value("object", <<>>, 0, fields)
Field(k, v) == [k |-> k, v |-> v]

\* Number.prototype.toString for a natural number
RECURSIVE NatToString(_)
NatToString(n) ==
    IF n < 10 THEN <<DigitChars[n + 1]>>
    ELSE NatToString(n \div 10) \o <<DigitChars[(n % 10) + 1]>>

\* String(value) for the primitive values
JsString(value) ==
    CASE value.t = "string" -> value.s
      [] value.t = "number" ->
            IF value.n < 0 THEN <<"-">> \o NatToString(0 - value.n)
            ELSE NatToString(value.n)
      [] value.t = "NaN" -> <<"N","a","N">>
      [] value.t = "Infinity" -> <<"I","n","f","i","n","i","t","y">>
      [] value.t = "boolean" ->
            IF value.n = 1 THEN <<"t","r","u","e">> ELSE <<"f","a","l","s","e">>
      [] value.t = "undefined" -> <<"u","n","d","e","f","i","n","e","d">>
      [] value.t = "null" -> <<"n","u","l","l">>
      [] OTHER -> value.s

----------------------------------------------------------------------------
(* Parameter Sanitizer                                                     *)

MaxParamString == 1000
MaxParamCount == 50
MaxKeyLength == 100
MaxArrayItems == 100
MaxNestedFields == 50
MaxPostString == 10000
MaxPostFields == 100
MaxQueryParams == 20
MaxQueryKeyLength == 50
MaxQueryValueLength == 500

\* [a-zA-Z0-9_-]
KeyChars == Range(UpperChars) \cup Range(LowerChars) \cup Range(DigitChars) \cup {"_", "-"}

\* the object left by the assignments sanitized[k] = v made in order: a key
\* keeps the place of its first assignment and the value of its last
assigned(assignments) ==
    LET n == Len(assignments)
        firsts == SelectSeq(Indices(n),
                      LAMBDA i : \A j \in 1..(i - 1) : assignments[j].k # assignments[i].k)
    IN [p \in 1..Len(firsts) |->
           LET k == assignments[firsts[p]].k
               last == CHOOSE j \in 1..n :
                          /\ assignments[j].k = k
                          /\ \A h \in (j + 1)..n : assignments[h].k # k
           IN Field(k, assignments[last].v)]

RECURSIVE sanitizeParamValue(_)

\* the for loop of sanitizeParamValue over Object.entries(value): every entry
\* counts, the loop breaks at 50
sanitizeNestedFields(entries) ==
    assigned([i \in 1..Min(Len(entries), MaxNestedFields) |->
                 Field(Substring0(entries[i].k, MaxKeyLength),
                       sanitizeParamValue(entries[i].v))])

sanitizeParamValue(value) ==
    CASE value.t = "string" -> Str(Substring0(value.s, MaxParamString))
      [] value.t = "number" -> value
      [] value.t \in {"NaN", "Infinity"} -> Num(0)
      [] value.t = "boolean" -> value
      [] value.t = "array" ->
            Arr([i \in 1..Min(Len(value.kids), MaxArrayItems) |->
                    sanitizeParamValue(value.kids[i].v)])
      [] value.t = "object" -> Obj(sanitizeNestedFields(value.kids))
      \* null, undefined and the other types: String(value).substring(0, 1000)
      [] OTHER -> Str(Substring0(JsString(value), MaxParamString))

\* the for loop of sanitizeParams: only the entries it keeps count, the loop
\* breaks when 50 were kept
sanitizeParamFields(entries) ==
    LET kept == SelectSeq(entries,
                    LAMBDA e : /\ Substring0(Keep(e.k, KeyChars), MaxKeyLength) # <<>>
                               /\ e.v.t \notin {"undefined", "null"})
    IN assigned([i \in 1..Min(Len(kept), MaxParamCount) |->
                    Field(Substring0(Keep(kept[i].k, KeyChars), MaxKeyLength),
                          sanitizeParamValue(kept[i].v))])

\* params is an object or undefined
sanitizeParams(params) ==
    IF params.t \in {"undefined", "null"} THEN Undefined
    ELSE Obj(sanitizeParamFields(params.kids))

\* the for loop of sanitizePostData: every entry counts, the loop breaks at 100
sanitizePostFields(entries) ==
    assigned([i \in 1..Min(Len(entries), MaxPostFields) |->
                 Field(Substring0(entries[i].k, MaxKeyLength),
                       sanitizeParamValue(entries[i].v))])

sanitizePostData(data) ==
    CASE data.t \in {"null", "undefined"} -> data
      [] data.t = "string" -> Str(Substring0(data.s, MaxPostString))
      [] data.t = "object" -> Obj(sanitizePostFields(data.kids))
      \* arrays, numbers, booleans and the other types are returned as they are
      [] OTHER -> data

\* the for loop of sanitizeQueryParams: only the entries it keeps count, the
\* loop breaks when 20 were kept
sanitizeQueryFields(entries) ==
    LET kept == SelectSeq(entries,
                    LAMBDA e : /\ e.v.t \notin {"undefined", "null"}
                               /\ Substring0(Keep(e.k, KeyChars), MaxQueryKeyLength) # <<>>
                               /\ Substring0(JsString(e.v), MaxQueryValueLength) # <<>>)
    IN assigned([i \in 1..Min(Len(kept), MaxQueryParams) |->
                    Field(Substring0(Keep(kept[i].k, KeyChars), MaxQueryKeyLength),
                          Str(Substring0(JsString(kept[i].v), MaxQueryValueLength)))])

sanitizeQueryParams(params) == Obj(sanitizeQueryFields(params.kids))

----------------------------------------------------------------------------
(* Transport, errors and results                                           *)

\* a client method invoked with an endpoint
Call(op, endpoint) == [op |-> op, endpoint |-> endpoint]

\* a request handed to the transport: data is the params of a GET (what axios
\* serialises into the query string) or the body of a POST
Req(method, url, data) == [method |-> method, url |-> url, data |-> data]

\* the transport had no response (network failure, timeout): the promise rejects
TransportFailure == [kind |-> "failure", status |-> 0, state |-> "", body |-> <<>>]

\* an HTTP response; state is the state field of a build body ("undefined" when
\* the body has none), body the text of a text response
Response(status, state, body) ==
    [kind |-> "response", status |-> status, state |-> state, body |-> body]

Statuses == {200, 404, 500}

\* validateStatus: (status) => status < 600: the promise resolves
validateStatus(status) == status < 600

Resolves(reply) == reply.kind = "response" /\ validateStatus(reply.status)

\* an error value: its class, the call (index in calls; 0 for a request made on
\* the transport directly) that raised it, and the status of its response
\* property (0: the error has no response property)
Error(class, call) == [class |-> class, call |-> call, status |-> 0]
NoError == Error("none", 0)

\* the response interceptor's rejected handler: the failure of a request
\* becomes throw new Error(safeError.message), a plain Error without response
handleSecureError(reply, call) == Error("transport", call)

Pending == [kind |-> "pending", what |-> "", success |-> FALSE, state |-> "",
            error |-> NoError]
Return(what, success, state) ==
    [kind |-> "return", what |-> what, success |-> success, state |-> state,
     error |-> NoError]
Raise(error) ==
    [kind |-> "raise", what |-> "", success |-> FALSE, state |-> "", error |-> error]

NoHeld == [error |-> NoError, cancelError |-> NoError]

\* the operation ends and gives o to its caller
Finish(o, c, s) ==
    /\ pc' = "done"
    /\ outcome' = o
    /\ calls' = c
    /\ sent' = s
    /\ UNCHANGED <<args, held>>

\* the operation waits at label for the answer to the last request of s
Await(label, c, s, h) ==
    /\ pc' = label
    /\ calls' = c
    /\ sent' = s
    /\ held' = h
    /\ UNCHANGED <<args, outcome>>

----------------------------------------------------------------------------
(* cancelBuild                                                             *)

BuildsIdPrefix ==
    <<"/","b","u","i","l","d","s","/","i","d",":">>
BuildQueueIdPrefix ==
    <<"/","b","u","i","l","d","Q","u","e","u","e","/","i","d",":">>
BuildFields ==
    <<"i","d",",","b","u","i","l","d","T","y","p","e","I","d",",","b","u",
      "i","l","d","T","y","p","e","(","i","d",",","n","a","m","e",",","p",
      "r","o","j","e","c","t","I","d",",","p","r","o","j","e","c","t","N",
      "a","m","e",")",",","n","u","m","b","e","r",",","s","t","a","t","u",
      "s",",","s","t","a","t","e",",","s","t","a","t","u","s","T","e","x",
      "t",",","q","u","e","u","e","d","D","a","t","e",",","s","t","a","r",
      "t","D","a","t","e",",","f","i","n","i","s","h","D","a","t","e",",",
      "t","r","i","g","g","e","r","e","d","(","d","a","t","e",")",",","w",
      "e","b","U","r","l",",","p","r","o","b","l","e","m","O","c","c","u",
      "r","r","e","n","c","e","s","(","p","r","o","b","l","e","m","O","c",
      "c","u","r","r","e","n","c","e","(","i","d",",","t","y","p","e",",",
      "d","e","t","a","i","l","s",")",")">>
DefaultCancelComment ==
    <<"B","u","i","l","d"," ","c","a","n","c","e","l","l","e","d"," ","v",
      "i","a"," ","M","C","P">>

\* getBuild(buildId): the endpoint and the params of its get
getBuildEndpoint(buildId) == BuildsIdPrefix \o buildId
getBuildParams == Obj(<<Field(<<"f","i","e","l","d","s">>, Str(BuildFields))>>)
queueEndpoint(buildId) == BuildQueueIdPrefix \o buildId

\* cancelData: comment || the default (an empty comment is falsy), readdIntoQueue
cancelData(comment) ==
    Obj(<<Field(<<"c","o","m","m","e","n","t">>,
                IF comment.t = "string" /\ comment.s # <<>>
                THEN comment ELSE Str(DefaultCancelComment)),
          Field(<<"r","e","a","d","d","I","n","t","o","Q","u","e","u","e">>,
                Bool(FALSE))>>)

\* the branch cancelBuild takes on the state of the fetched build
cancelBranch_queuedPosts(state) ==
    IF state \in {"queued", "running"} THEN "post" ELSE "none"
cancelBranch_finishedDeletes(state) ==
    IF state = "running" THEN "post" ELSE "delete"
cancelBranch(state) ==
    IF state = "queued" THEN "delete"
    ELSE IF state = "running" THEN "post"
    ELSE "none"

\* checkBuild.state !== 'running' after the cancel POST failed
noLongerRunning_never(state) == FALSE
noLongerRunning(state) == state # "running"

\* the error the outer catch re-throws when its queue delete failed too
rethrown_deleteError(error, deleteError) == deleteError
rethrown(error, deleteError) == error

\* the outer catch: try the queue delete anyway
cancelCatch(error, c, s) ==
    LET endpoint == queueEndpoint(args.buildId)
        c2 == Append(c, Call("delete", endpoint))
    IN IF validateEndpoint(endpoint) = "ok"
       THEN Await("cancel_catch_delete", c2,
                  Append(s, Req("DELETE", endpoint, Undefined)),
                  [held EXCEPT !.error = error])
       ELSE Finish(Raise(rethrown(error, Error("validation", Len(c2)))), c2, s)

\* cancelBuild(buildId, comment) up to its first await
cancelBuild(buildId, comment) ==
    /\ pc = "idle"
    /\ args' = [op |-> "cancelBuild", buildId |-> buildId, comment |-> comment]
    /\ UNCHANGED replies
    /\ LET endpoint == getBuildEndpoint(buildId)
           c == Append(calls, Call("get", endpoint))
       IN IF validateEndpoint(endpoint) = "ok"
          THEN /\ pc' = "cancel_getBuild"
               /\ calls' = c
               /\ sent' = Append(sent, Req("GET", endpoint, sanitizeParams(getBuildParams)))
               /\ UNCHANGED <<held, outcome>>
          ELSE \* the queue endpoint is longer than the build endpoint and has the
               \* same buildId: it is rejected as well
               LET qe == queueEndpoint(buildId)
                   c2 == Append(c, Call("delete", qe))
               IN IF validateEndpoint(qe) = "ok"
                  THEN /\ pc' = "cancel_catch_delete"
                       /\ calls' = c2
                       /\ sent' = Append(sent, Req("DELETE", qe, Undefined))
                       /\ held' = [held EXCEPT !.error = Error("validation", Len(c))]
                       /\ UNCHANGED outcome
                  ELSE /\ pc' = "done"
                       /\ calls' = c2
                       /\ sent' = sent
                       /\ outcome' = Raise(rethrown(Error("validation", Len(c)),
                                                    Error("validation", Len(c2))))
                       /\ UNCHANGED held

\* the answer to the first getBuild
cancel_getBuild(reply) ==
    /\ pc = "cancel_getBuild"
    /\ replies' = Append(replies, reply)
    /\ IF ~Resolves(reply)
       THEN cancelCatch(handleSecureError(reply, Len(calls)), calls, sent)
       ELSE LET branch == cancelBranch(reply.state)
            IN IF branch = "delete"
               THEN \* return this.delete(...): not awaited inside the try, so a
                    \* failure of it goes to the caller, not to the catch
                    LET endpoint == queueEndpoint(args.buildId)
                        c == Append(calls, Call("delete", endpoint))
                    IN IF validateEndpoint(endpoint) = "ok"
                       THEN Await("cancel_queue_delete", c,
                                  Append(sent, Req("DELETE", endpoint, Undefined)), held)
                       ELSE Finish(Raise(Error("validation", Len(c))), c, sent)
               ELSE IF branch = "post"
               THEN LET cancelUrl == getBuildEndpoint(args.buildId)
                        c == Append(calls, Call("post", cancelUrl))
                    IN IF validateEndpoint(cancelUrl) = "ok"
                       THEN Await("cancel_post", c,
                                  Append(sent, Req("POST", cancelUrl,
                                         sanitizePostData(cancelData(args.comment)))),
                                  held)
                       ELSE \* post throws, the inner catch calls getBuild, whose
                            \* validation of the same endpoint throws to the outer catch
                            LET c2 == Append(c, Call("get", cancelUrl))
                            IN cancelCatch(Error("validation", Len(c2)), c2, sent)
               ELSE Finish(Return("not running or queued", FALSE, reply.state),
                           calls, sent)

\* the answer to the queue DELETE of a queued build
cancel_queue_delete(reply) ==
    /\ pc = "cancel_queue_delete"
    /\ replies' = Append(replies, reply)
    /\ IF Resolves(reply)
       THEN Finish(Return("true", TRUE, ""), calls, sent)
       ELSE Finish(Raise(handleSecureError(reply, Len(calls))), calls, sent)

\* the answer to the cancel POST of a running build
cancel_post(reply) ==
    /\ pc = "cancel_post"
    /\ replies' = Append(replies, reply)
    /\ IF Resolves(reply)
       THEN Finish(Return("cancelled", TRUE, ""), calls, sent)
       ELSE \* catch (cancelError): fetch the build again
            LET cancelError == handleSecureError(reply, Len(calls))
                endpoint == getBuildEndpoint(args.buildId)
                c == Append(calls, Call("get", endpoint))
            IN IF validateEndpoint(endpoint) = "ok"
               THEN Await("cancel_recheck", c,
                          Append(sent, Req("GET", endpoint, sanitizeParams(getBuildParams))),
                          [held EXCEPT !.cancelError = cancelError])
               ELSE cancelCatch(Error("validation", Len(c)), c, sent)

\* the answer to the second getBuild
cancel_recheck(reply) ==
    /\ pc = "cancel_recheck"
    /\ replies' = Append(replies, reply)
    /\ IF ~Resolves(reply)
       THEN cancelCatch(handleSecureError(reply, Len(calls)), calls, sent)
       ELSE IF noLongerRunning(reply.state)
       THEN Finish(Return("no longer running", TRUE, reply.state), calls, sent)
       ELSE \* throw cancelError: it is thrown inside the outer try
            cancelCatch(held.cancelError, calls, sent)

\* the answer to the queue DELETE of the outer catch
cancel_catch_delete(reply) ==
    /\ pc = "cancel_catch_delete"
    /\ replies' = Append(replies, reply)
    /\ IF Resolves(reply)
       THEN Finish(Return("true", TRUE, ""), calls, sent)
       ELSE Finish(Raise(rethrown(held.error, handleSecureError(reply, Len(calls)))),
                   calls, sent)

----------------------------------------------------------------------------
(* The cancel-build specification: one cancelBuild call against a server   *)
(* that answers each request in any of the ways the transport allows.      *)

\* build ids: two ordinary ones, one with a character the validator rejects,
\* one so long that only the (longer) queue endpoint exceeds the limit, and
\* one so long that both endpoints do
BuildIds ==
    { <<"1","2","3">>, <<"4","2">>, <<"7",";">>,
      Repeat("9", MaxEndpointLength - Len(BuildQueueIdPrefix) + 1),
      Repeat("9", MaxEndpointLength - Len(BuildsIdPrefix) + 1) }

CancelComments == {Undefined, Str(<<>>), Str(<<"s","t","o","p">>)}

\* the answers to a GET of a build: a failure, a build in some state, or an
\* error response whose body has no state
BuildReplies ==
    {TransportFailure}
      \cup {Response(200, st, <<>>) : st \in {"queued", "running", "finished"}}
      \cup {Response(status, "undefined", <<>>) : status \in Statuses \ {200}}

\* the answers to a POST or a DELETE
PlainReplies == {TransportFailure} \cup {Response(status, "", <<>>) : status \in Statuses}

Idle ==
    /\ pc = "idle"
    /\ args = [op |-> "none"]
    /\ calls = <<>>
    /\ sent = <<>>
    /\ replies = <<>>
    /\ held = NoHeld
    /\ outcome = Pending

NextCancel ==
    \/ \E buildId \in BuildIds, comment \in CancelComments : cancelBuild(buildId, comment)
    \/ \E reply \in BuildReplies : cancel_getBuild(reply)
    \/ \E reply \in PlainReplies : cancel_queue_delete(reply)
    \/ \E reply \in PlainReplies : cancel_post(reply)
    \/ \E reply \in BuildReplies : cancel_recheck(reply)
    \/ \E reply \in PlainReplies : cancel_catch_delete(reply)

SpecCancel == Idle /\ [][NextCancel]_vars

\* the indices of the invocations of a client method, and of the requests of
\* a method on the wire
CallsOf(op) == {i \in 1..Len(calls) : calls[i].op = op}
SentOf(method) == {i \in 1..Len(sent) : sent[i].method = method}

\* the first getBuild of a cancelBuild was answered with a build in this state
FirstFetchReported(state) ==
    /\ args.op = "cancelBuild"
    /\ Len(replies) >= 1
    /\ sent[1].method = "GET"
    /\ Resolves(replies[1])
    /\ replies[1].state = state

\* the first getBuild of a cancelBuild failed: rejected by the validator, or
\* sent and not answered
FirstFetchFailed ==
    /\ args.op = "cancelBuild"
    /\ \/ validateEndpoint(calls[1].endpoint) # "ok"
       \/ Len(replies) >= 1 /\ ~Resolves(replies[1])

C2_RunningPostsOnce ==
    FirstFetchReported("running") =>
        /\ Cardinality(CallsOf("post")) = 1
        /\ Cardinality(SentOf("POST")) = 1
        /\ \A i \in SentOf("POST") :
              /\ sent[i].url = BuildsIdPrefix \o args.buildId
              /\ Len(sent[i].data.kids) = 2
              /\ sent[i].data.kids[1].k = <<"c","o","m","m","e","n","t">>
              /\ sent[i].data.kids[1].v.t = "string"
              /\ sent[i].data.kids[1].v.s # <<>>
              /\ sent[i].data.kids[2] =
                    Field(<<"r","e","a","d","d","I","n","t","o","Q","u","e","u","e">>,
                          Bool(FALSE))
        /\ (/\ Len(replies) >= 3
            /\ ~Resolves(replies[2])
            /\ Resolves(replies[3])
            /\ replies[3].state # "running")
           => /\ pc = "done"
              /\ outcome.kind = "return"
              /\ outcome.success

\* the POST failed, the second fetch found the build finished, the call succeeded
C2_Witness ==
    /\ FirstFetchReported("running")
    /\ Len(replies) = 3
    /\ ~Resolves(replies[2])
    /\ replies[3].state = "finished"
    /\ outcome.kind = "return"
    /\ outcome.success

\* C3: once the first fetch has succeeded with a state that is neither
\* 'queued' nor 'running', cancelBuild has ended by returning (not raising) a
\* result with success=false that carries the observed state, and no DELETE
\* and no POST was issued.
C3_OtherStateNotApplicable ==
    \A state \in {"finished", "undefined"} :
        FirstFetchReported(state) =>
            /\ pc = "done"
            /\ outcome.kind = "return"
            /\ outcome.success = FALSE
            /\ outcome.what = "not running or queued"
            /\ outcome.state = state
            /\ CallsOf("delete") = {} /\ CallsOf("post") = {}
            /\ SentOf("DELETE") = {} /\ SentOf("POST") = {}

\* a finished build: the not-applicable result
C3_Witness ==
    /\ FirstFetchReported("finished")
    /\ pc = "done"
    /\ outcome.kind = "return"
    /\ outcome.success = FALSE

----------------------------------------------------------------------------
(* sanitizeTextContent                                                     *)

MaxTextLength == 1048576

\* \s of a RegExp, on the characters of the model
WhitespaceChars == {" ", "\n", "\t", "\r"}

BearerWord == <<"B","e","a","r","e","r">>
PasswordWord == <<"p","a","s","s","w","o","r","d">>
BearerRedacted ==
    <<"B","e","a","r","e","r"," ","[","R","E","D","A","C","T","E","D","]">>
PasswordRedacted ==
    <<"p","a","s","s","w","o","r","d","=","[","R","E","D","A","C","T","E",
      "D","]">>

\* how many characters from position i on are in (inClass) or not in the class
RunLength(s, i, class, inClass) ==
    LET stops == {j \in i..Len(s) : (s[j] \in class) # inClass}
    IN IF stops = {} THEN Max(Len(s) - i + 1, 0)
       ELSE (CHOOSE j \in stops : \A h \in stops : j <= h) - i

\* the length of the match of /Bearer\s+[a-zA-Z0-9_-]+/i at position i, 0 if none
bearerMatch(s, i) ==
    IF ~MatchAt(s, i, BearerWord, TRUE) THEN 0
    ELSE LET from == i + Len(BearerWord)
             spaces == RunLength(s, from, WhitespaceChars, TRUE)
             token == RunLength(s, from + spaces, KeyChars, TRUE)
         IN IF spaces >= 1 /\ token >= 1 THEN Len(BearerWord) + spaces + token ELSE 0

\* the length of the match of /password[=:]\s*[^\s;,)]+/i at position i, 0 if none
passwordMatch(s, i) ==
    IF ~MatchAt(s, i, PasswordWord, TRUE) THEN 0
    ELSE LET from == i + Len(PasswordWord)
         IN IF from > Len(s) \/ s[from] \notin {"=", ":"} THEN 0
            ELSE LET spaces == RunLength(s, from + 1, WhitespaceChars, TRUE)
                     secret == RunLength(s, from + 1 + spaces,
                                         WhitespaceChars \cup {";", ",", ")"}, FALSE)
                 IN IF secret >= 1 THEN Len(PasswordWord) + 1 + spaces + secret ELSE 0

\* text.replace(/Bearer\s+[a-zA-Z0-9_-]+/gi, 'Bearer [REDACTED]') from position i:
\* the text up to the next match, the replacement, and the rest after the match
RECURSIVE redactBearer(_, _)
redactBearer(s, i) ==
    LET starts == {j \in i..Len(s) : bearerMatch(s, j) > 0}
    IN IF starts = {} THEN SubSeq(s, i, Len(s))
       ELSE LET j == CHOOSE j \in starts : \A h \in starts : j <= h
            IN SubSeq(s, i, j - 1) \o BearerRedacted
                 \o redactBearer(s, j + bearerMatch(s, j))

\* text.replace(/password[=:]\s*[^\s;,)]+/gi, 'password=[REDACTED]') from position i
RECURSIVE redactPassword(_, _)
redactPassword(s, i) ==
    LET starts == {j \in i..Len(s) : passwordMatch(s, j) > 0}
    IN IF starts = {} THEN SubSeq(s, i, Len(s))
       ELSE LET j == CHOOSE j \in starts : \A h \in starts : j <= h
            IN SubSeq(s, i, j - 1) \o PasswordRedacted
                 \o redactPassword(s, j + passwordMatch(s, j))

\* (the set constructors make each step's result a value before the next reads it)
sanitizeTextContent(text) ==
    IF text = <<>> THEN <<>>
    ELSE CHOOSE result \in
             {redactPassword(t, 1) :
                 t \in {redactBearer(Substring0(text, MaxTextLength), 1)}} : TRUE

----------------------------------------------------------------------------
(* get, post, delete, getText, getBinary                                   *)

\* a client method validates its endpoint, then hands the request to the
\* transport and awaits the answer
issue(op, method, endpoint, data) ==
    /\ pc = "idle"
    /\ args' = [op |-> op, endpoint |-> endpoint, data |-> data]
    /\ calls' = Append(calls, Call(op, endpoint))
    /\ UNCHANGED <<replies, held>>
    /\ IF validateEndpoint(endpoint) = "ok"
       THEN /\ pc' = "request"
            /\ sent' = Append(sent, Req(method, endpoint, data))
            /\ UNCHANGED outcome
       ELSE /\ pc' = "done"
            /\ outcome' = Raise(Error("validation", Len(calls) + 1))
            /\ UNCHANGED sent

get(endpoint, params) == issue("get", "GET", endpoint, sanitizeParams(params))

post(endpoint, data) == issue("post", "POST", endpoint, sanitizePostData(data))

delete(endpoint) == issue("delete", "DELETE", endpoint, Undefined)

getText(endpoint) == issue("getText", "GET", endpoint, Undefined)

getBinary(endpoint) == issue("getBinary", "GET", endpoint, Undefined)

\* what a settled request of a client method gives back
ReturnData(reply) ==
    [kind |-> "return", what |-> "data", success |-> TRUE, state |-> reply.state,
     error |-> NoError, status |-> reply.status, value |-> reply.body]

\* the awaited request of a client method settles
request(reply) ==
    /\ pc = "request"
    /\ replies' = Append(replies, reply)
    /\ IF ~Resolves(reply)
       THEN Finish(Raise(handleSecureError(reply, Len(calls))), calls, sent)
       ELSE CASE args.op = "delete" -> Finish(Return("true", TRUE, ""), calls, sent)
              [] args.op = "getText" ->
                    Finish([ReturnData(reply) EXCEPT
                               !.value = sanitizeTextContent(reply.body)], calls, sent)
              [] OTHER -> Finish(ReturnData(reply), calls, sent)

----------------------------------------------------------------------------
(* The request specification: one call of get, post, delete, getText or    *)
(* getBinary, with an endpoint of each kind the validator distinguishes.   *)

RequestEndpoints ==
    { <<>>,
      Repeat("a", MaxEndpointLength),
      Repeat("a", MaxEndpointLength + 1),
      <<"/","b","u","i","l","d","s">>,
      <<"/","b","u","i","l","d","s","?","l","o","c","a","t","o","r","=","c",
      "o","u","n","t",":","5">>,
      <<"/","b","u","i","l","d","s","/","i","d",":","1","/","a","r","t","i",
      "f","a","c","t","s","/","c","o","n","t","e","n","t","/","a",".","t",
      "x","t">>,
      <<"/","p","r","o","j","e","c","t","s","/","i","d",":","(","x",")">>,
      <<"/","a","/",".",".","/","b">>,
      <<"/","a","?","b","=",".",".">>,
      <<"/","x","/","J","a","v","a","S","c","r","i","p","t",":","y">>,
      <<"/","x","/","d","a","t","a",":","y">>,
      <<"/","x","/","F","I","L","E",":","y">>,
      <<"/","a","?","u","=","j","a","v","a","s","c","r","i","p","t",":","b">>,
      <<"/","a","?","b","=","<","c">>,
      <<"/","a","?","b","=","(","c",")","&","d","=","e">>,
      <<"/","a","?","b","?","c","=","<","d">>,
      <<"/","a","&","b">>,
      <<"?","<">> }
      \cup {<<"/", "a", c, "b">> : c \in PathInjectionChars \cup QueryInjectionChars}
      \cup {<<"/", "a", "?", "b", "=", c>> : c \in PathInjectionChars \cup QueryInjectionChars}

GetParams ==
    { Undefined,
      Obj(<<Field(<<"l","o","c","a","t","o","r">>,
                  Str(<<"s","t","a","t","u","s",":","F","A","I","L","U","R","E">>))>>) }

PostBodies ==
    { Undefined,
      Obj(<<Field(<<"b","u","i","l","d","T","y","p","e">>,
                  Obj(<<Field(<<"i","d">>, Str(<<"B","t","1">>))>>))>>) }

TextBodies ==
    { <<>>, <<"o","k">>,
      <<"B","e","a","r","e","r"," ","a","b","c">> }

RequestReplies ==
    {TransportFailure}
      \cup {Response(status, "undefined", body) : status \in Statuses, body \in TextBodies}

NextRequest ==
    \/ \E endpoint \in RequestEndpoints, params \in GetParams : get(endpoint, params)
    \/ \E endpoint \in RequestEndpoints, data \in PostBodies : post(endpoint, data)
    \/ \E endpoint \in RequestEndpoints : delete(endpoint)
    \/ \E endpoint \in RequestEndpoints : getText(endpoint)
    \/ \E endpoint \in RequestEndpoints : getBinary(endpoint)
    \/ \E reply \in RequestReplies : request(reply)

SpecRequest == Idle /\ [][NextRequest]_vars

ClientMethods == {"get", "post", "delete", "getText", "getBinary"}

\* the part of an endpoint before its first question mark
PathSegmentOf(endpoint) ==
    IF \E i \in 1..Len(endpoint) : endpoint[i] = "?"
    THEN SubSeq(endpoint, 1,
                (CHOOSE i \in 1..Len(endpoint) :
                    endpoint[i] = "?" /\ \A j \in 1..(i - 1) : endpoint[j] # "?") - 1)
    ELSE endpoint

\* the endpoints the claim says are refused
RefusedEndpoint(endpoint) ==
    \/ endpoint = <<>>
    \/ Len(endpoint) > 500
    \/ LET path == PathSegmentOf(endpoint)
       IN \/ \E i \in 1..(Len(path) - 1) : path[i] = "." /\ path[i + 1] = "."
          \/ \E i \in 1..Len(path) :
                path[i] \in {"<", ">", "'", "\"", ";", "&", "|", Backtick, "$", "(", ")"}
          \/ \E scheme \in {JavascriptScheme, DataScheme, FileScheme} :
                \E i \in 1..Len(path) :
                   /\ i + Len(scheme) - 1 <= Len(path)
                   /\ \A j \in 1..Len(scheme) : ToLower(path[i + j - 1]) = scheme[j]

\* C5: a call of get, post, delete, getText or getBinary whose endpoint is
\* empty, longer than 500 characters, or has '..', a forbidden character or a
\* javascript:/data:/file: scheme in its path segment has raised a validation
\* error and handed no request to the transport.
C5_RefusedBeforeTransport ==
    (args.op \in ClientMethods /\ RefusedEndpoint(args.endpoint)) =>
        /\ pc = "done"
        /\ outcome.kind = "raise"
        /\ outcome.error.class = "validation"
        /\ sent = <<>>
        /\ replies = <<>>

\* getBinary with an endpoint of 501 characters was refused, nothing was sent
C5_Witness ==
    /\ args.op = "getBinary"
    /\ Len(args.endpoint) = MaxEndpointLength + 1
    /\ pc = "done"
    /\ outcome.kind = "raise"
    /\ sent = <<>>

----------------------------------------------------------------------------
(* fetchBuildLog                                                           *)

ApiRoot == <<"/","a","p","p","/","r","e","s","t">>

\* String.prototype.trim
RECURSIVE Trim(_)
Trim(s) ==
    IF s = <<>> THEN s
    ELSE IF s[1] \in WhitespaceChars THEN Trim(Tail(s))
    ELSE IF s[Len(s)] \in WhitespaceChars THEN Trim(SubSeq(s, 1, Len(s) - 1))
    ELSE s

\* s.endsWith(suffix)
EndsWith(s, suffix) ==
    Len(s) >= Len(suffix) /\ SubSeq(s, Len(s) - Len(suffix) + 1, Len(s)) = suffix

\* s.replace(lit, repl) with a string pattern: the first occurrence only
ReplaceFirst(s, lit, repl) ==
    IF ~Contains(s, lit, FALSE) THEN s
    ELSE LET k == CHOOSE i \in 1..Len(s) :
                     MatchAt(s, i, lit, FALSE)
                       /\ \A j \in 1..(i - 1) : ~MatchAt(s, j, lit, FALSE)
         IN SubSeq(s, 1, k - 1) \o repl \o SubSeq(s, k + Len(lit), Len(s))

normalizeBaseUrl(serverUrl) ==
    LET trimmed == Trim(serverUrl)
        normalized == IF trimmed # <<>> /\ trimmed[Len(trimmed)] = "/"
                      THEN SubSeq(trimmed, 1, Len(trimmed) - 1) ELSE trimmed
    IN IF EndsWith(normalized, ApiRoot) THEN normalized ELSE normalized \o ApiRoot

\* TEAMCITY_SERVER_URL of the model's client
ServerUrl == <<"h","t","t","p","s",":","/","/","t","c",".","e","x","a","m","p","l",
      "e",".","c","o","m","/">>
baseUrl == normalizeBaseUrl(ServerUrl)

DownloadPath ==
    <<"/","d","o","w","n","l","o","a","d","B","u","i","l","d","L","o","g",
      ".","h","t","m","l","?","b","u","i","l","d","I","d","=">>
LogsContentSuffix == <<"/","l","o","g","s","/","c","o","n","t","e","n","t">>

downloadUrl(buildId) == ReplaceFirst(baseUrl, ApiRoot, <<>>) \o DownloadPath \o buildId
logContentEndpoint(buildId) == BuildsIdPrefix \o buildId \o LogsContentSuffix

\* Array.prototype.slice(start) of a sequence
jsSlice(lines, start) ==
    LET from == IF start < 0 THEN Max(Len(lines) + start, 0) ELSE Min(start, Len(lines))
    IN SubSeq(lines, from + 1, Len(lines))

\* the result of the tail branch: text.split, slice(-lineCount) and the meta
tailResult(text, lineCount) ==
    LET lines == Split(text, "\n")
    IN [mode |-> "tail",
        lines |-> jsSlice(lines, 0 - lineCount),
        pageSize |-> lineCount,
        startLine |-> Max(0, Len(lines) - lineCount),
        hasMore |-> Len(lines) > lineCount,
        totalLines |-> Len(lines),
        fields |-> {"lines", "meta"}]

\* the result of the full branch of the primary path
fullResult(text) ==
    [mode |-> "full",
     content |-> text,
     lines |-> Split(text, "\n"),
     totalLines |-> Len(Split(text, "\n")),
     fields |-> {"content", "buildId", "lines", "meta"}]

\* the result of the full branch of the fallback path: { content: text, buildId }
fallbackFullResult(text) ==
    [mode |-> "none", content |-> text, fields |-> {"content", "buildId"}]

\* the structured result for a log that is not there
logNotAvailable ==
    [mode |-> "error",
     lines |-> << <<"B","u","i","l","d"," ","l","o","g"," ","n","o","t"," ","a","v","a",
      "i","l","a","b","l","e"," ","-"," ","u","n","a","b","l","e"," ","t",
      "o"," ","r","e","t","r","i","e","v","e"," ","l","o","g","s"," ","f",
      "r","o","m"," ","s","e","r","v","e","r">> >>,
     hasMore |-> FALSE,
     totalLines |-> 0,
     fields |-> {"lines", "meta"}]

\* error.response?.status === 404 || fallbackError.response?.status === 404
bothNotFound(error, fallbackError) == error.status = 404 \/ fallbackError.status = 404

ReturnLog(value) ==
    [kind |-> "return", what |-> "log", success |-> TRUE, state |-> "",
     error |-> NoError, value |-> value]

\* if (tail && lineCount): a lineCount of 0 stands for an absent or zero one
tailRequested(tail, lineCount) == tail /\ lineCount # 0

\* fetchBuildLog up to its first await: the download request goes to the
\* transport directly, not through a client method
fetchBuildLog(buildId, tail, lineCount) ==
    /\ pc = "idle"
    /\ args' = [op |-> "fetchBuildLog", buildId |-> buildId, tail |-> tail,
                lineCount |-> lineCount]
    /\ pc' = "log_download"
    /\ sent' = Append(sent, Req("GET", downloadUrl(buildId), Undefined))
    /\ UNCHANGED <<calls, replies, held, outcome>>

\* the answer to the download request
log_download(reply) ==
    /\ pc = "log_download"
    /\ replies' = Append(replies, reply)
    /\ IF Resolves(reply)
       THEN LET fullLog == reply.body
            IN IF tailRequested(args.tail, args.lineCount)
               THEN Finish(ReturnLog(tailResult(fullLog, args.lineCount)), calls, sent)
               ELSE Finish(ReturnLog(fullResult(fullLog)), calls, sent)
       ELSE LET error == handleSecureError(reply, 0)
                endpoint == logContentEndpoint(args.buildId)
                c == Append(calls, Call("getText", endpoint))
            IN IF validateEndpoint(endpoint) = "ok"
               THEN Await("log_content", c,
                          Append(sent, Req("GET", endpoint, Undefined)),
                          [held EXCEPT !.error = error])
               ELSE IF bothNotFound(error, Error("validation", Len(c)))
               THEN Finish(ReturnLog(logNotAvailable), c, sent)
               ELSE Finish(Raise(error), c, sent)

\* the answer to the getText of the fallback endpoint
log_content(reply) ==
    /\ pc = "log_content"
    /\ replies' = Append(replies, reply)
    /\ IF Resolves(reply)
       THEN LET text == sanitizeTextContent(reply.body)
            IN IF tailRequested(args.tail, args.lineCount)
               THEN Finish(ReturnLog(tailResult(text, args.lineCount)), calls, sent)
               ELSE Finish(ReturnLog(fallbackFullResult(text)), calls, sent)
       ELSE IF bothNotFound(held.error, handleSecureError(reply, Len(calls)))
       THEN Finish(ReturnLog(logNotAvailable), calls, sent)
       ELSE Finish(Raise(held.error), calls, sent)

----------------------------------------------------------------------------
(* The log specification: one fetchBuildLog call; the server answers the   *)
(* download request and the fallback request in any way.                   *)

MaxLogLines == 2

LogLinePool ==
    { <<"a">>, BearerWord, BearerWord \o <<" ", "t">>, PasswordWord \o <<":">> }

\* the logs of 1..MaxLogLines lines over the pool, and the 25-line log of the
\* specification's example
ExampleLog == Join([i \in 1..25 |-> <<"l">> \o NatToString(i)], <<"\n">>)

LogTexts ==
    {Join(ls, <<"\n">>) :
        ls \in UNION {[1..n -> LogLinePool] : n \in 1..MaxLogLines}}
      \cup {ExampleLog}

NotFoundBody == <<"N","o","t"," ","F","o","u","n","d">>

LogBuildIds == { <<"1","2">>, <<"7","<">> }
LineCounts == {0, 1, 2, 10}

LogReplies ==
    {TransportFailure}
      \cup {Response(200, "undefined", text) : text \in LogTexts}
      \cup {Response(status, "undefined", NotFoundBody) : status \in Statuses \ {200}}

NextLog ==
    \/ \E buildId \in LogBuildIds, tail \in BOOLEAN, lineCount \in LineCounts :
          fetchBuildLog(buildId, tail, lineCount)
    \/ \E reply \in LogReplies : log_download(reply)
    \/ \E reply \in LogReplies : log_content(reply)

SpecLog == Idle /\ [][NextLog]_vars

\* C6: every request handed to the transport has a path and query string
\* that the Endpoint Validator accepts.  (Stated for the URL given to the
\* transport; the params of a get are serialised by the transport and are
\* not part of it.)
C6_EveryRequestValidated ==
    \A i \in 1..Len(sent) : validateEndpoint(sent[i].url) = "ok"

\* fetchBuildLog has ended after the server served a log with status 200
LogServed ==
    /\ args.op = "fetchBuildLog"
    /\ pc = "done"
    /\ replies # <<>>
    /\ replies[Len(replies)].kind = "response"
    /\ replies[Len(replies)].status = 200

\* the claimed tail result for a log and a line count
TailClaimHolds(log, count) ==
    LET all == Split(log, "\n")
        total == Len(all)
    IN /\ outcome.kind = "return"
       /\ outcome.value.mode = "tail"
       /\ outcome.value.lines = SubSeq(all, total - Min(count, total) + 1, total)
       /\ outcome.value.totalLines = total
       /\ outcome.value.startLine = (IF total > count THEN total - count ELSE 0)
       /\ outcome.value.hasMore = (total > count)

\* C9: with tail=true and lineCount=N>0, a log of T lines served by the
\* primary or by the fallback endpoint gives exactly its last min(N,T) lines,
\* totalLines=T, startLine=max(0,T-N) and hasMore=(T>N).
C9_TailOfServedLog ==
    (LogServed /\ args.tail /\ args.lineCount > 0) =>
        TailClaimHolds(replies[Len(replies)].body, args.lineCount)

\* C10: when the server answers with 404 every request fetchBuildLog makes
\* (its download endpoint and its /logs/content endpoint both answer
\* not-found), the call returns the 'log not available' result: mode 'error',
\* totalLines 0, and not the body of the 404 response.
C10_NotFoundGivesNotAvailable ==
    (/\ args.op = "fetchBuildLog"
     /\ pc = "done"
     /\ replies # <<>>
     /\ \A i \in 1..Len(replies) :
           replies[i].kind = "response" /\ replies[i].status = 404)
      => /\ outcome.kind = "return"
         /\ outcome.value.mode = "error"
         /\ outcome.value.totalLines = 0

----------------------------------------------------------------------------
(* buildLocator                                                            *)

MaxLocatorKeyLength == 50
MaxLocatorValueLength == 200
MaxLocatorParts == 20

\* the class of /[,;()[\]{}'"\\]/
LocatorValueChars == {",", ";", "(", ")", "[", "]", "{", "}", "'", "\"", "\\"}

\* String(key).replace(/[^a-zA-Z0-9_-]/g, '').substring(0, 50)
safeKey(key) == Substring0(Keep(key, KeyChars), MaxLocatorKeyLength)

\* String(value).replace(/[,;()[\]{}'"\\]/g, '').substring(0, 200)
safeValue_keepsCommas(value) ==
    Substring0(Remove(JsString(value), LocatorValueChars \ {","}), MaxLocatorValueLength)
safeValue(value) ==
    Substring0(Remove(JsString(value), LocatorValueChars), MaxLocatorValueLength)

\* Object.entries(parts).filter(...).map(...).slice(0, 20).join(',')
buildLocator(parts) ==
    LET filtered == SelectSeq(parts.kids,
                        LAMBDA e : e.v.t \notin {"undefined", "null"} /\ e.v # Str(<<>>))
        mapped == [i \in 1..Len(filtered) |->
                      safeKey(filtered[i].k) \o <<":">> \o safeValue(filtered[i].v)]
        sanitizedParts == SubSeq(mapped, 1, Min(Len(mapped), MaxLocatorParts))
    IN Join(sanitizedParts, <<",">>)

\* the value a pure method gives back
ReturnValue(what, value) ==
    [kind |-> "return", what |-> what, success |-> TRUE, state |-> "",
     error |-> NoError, value |-> value]

\* one call of buildLocator with the parts of args
callBuildLocator ==
    /\ pc = "idle"
    /\ args.op = "buildLocator"
    /\ pc' = "done"
    /\ outcome' = ReturnValue("locator", buildLocator(args.parts))
    /\ UNCHANGED <<args, calls, sent, replies, held>>

----------------------------------------------------------------------------
(* The locator specification: buildLocator applied to one parts object.    *)

\* the most entries of an object drawn from the pool
MaxPartsDrawn == 2

StatusKey == <<"s","t","a","t","u","s">>
CountKey == <<"c","o","u","n","t">>
NameKey == <<"n","a","m","e">>
Failure == <<"F","A","I","L","U","R","E">>

\* entries with different keys: plain ones, the ones the filter drops, keys
\* and values with characters that are removed, and ones longer than the cuts
LocatorEntryPool ==
    { Field(StatusKey, Str(Failure)),
      Field(CountKey, Num(5)),
      Field(NameKey, Str(<<"a", ",", "b">>)),
      Field(<<"r","u","n","n","i","n","g">>, Bool(FALSE)),
      Field(<<"b","r","a","n","c","h">>, Undefined),
      Field(<<"t","a","g">>, Null),
      Field(<<"u","s","e","r">>, Str(<<>>)),
      Field(<<"b","u","i","l","d",".","T","y","p","e">>, Str(<<"B","t","(","1",")",";","[","x","]","{","y","}","'","z","\"","\\","w">>)),
      Field(<<"$">>, Str(<<",">>)),
      Field(Repeat("k", MaxLocatorKeyLength) \o <<".", "z">>,
            Str(<<",">> \o Repeat("v", MaxLocatorValueLength) \o <<"w">>)) }

\* 25 entries k1..k25 with the values 1..25
ManyParts == Obj([i \in 1..25 |-> Field(<<"k">> \o NatToString(i), Num(i))])

\* the same with the values of k2 and k5 undefined and empty
ManyPartsWithGaps ==
    Obj([i \in 1..25 |->
            Field(<<"k">> \o NatToString(i),
                  IF i = 2 THEN Undefined ELSE IF i = 5 THEN Str(<<>>) ELSE Num(i))])

LocatorInputs ==
    {Obj(entries) :
        entries \in {s \in UNION {[1..n -> LocatorEntryPool] : n \in 0..MaxPartsDrawn} :
                        \A i, j \in 1..Len(s) : i # j => s[i].k # s[j].k}}
      \cup {ManyParts, ManyPartsWithGaps}

InitLocator ==
    /\ pc = "idle"
    /\ \E parts \in LocatorInputs : args = [op |-> "buildLocator", parts |-> parts]
    /\ calls = <<>>
    /\ sent = <<>>
    /\ replies = <<>>
    /\ held = NoHeld
    /\ outcome = Pending

NextLocator == callBuildLocator

SpecLocator == InitLocator /\ [][NextLocator]_vars

\* the entries the claim keeps: value not undefined, null or the empty string
PresentEntries(parts) ==
    SelectSeq(parts.kids,
        LAMBDA e : ~(e.v.t = "undefined" \/ e.v.t = "null"
                       \/ (e.v.t = "string" /\ e.v.s = <<>>)))

\* the pair the claim gives for an entry
ClaimedPair(e) ==
    LET keyChars == SelectSeq(e.k,
                        LAMBDA c : c \in Range(UpperChars) \cup Range(LowerChars)
                                            \cup Range(DigitChars) \cup {"_", "-"})
        valueChars == SelectSeq(JsString(e.v),
                        LAMBDA c : c \notin {",", ";", "(", ")", "[", "]", "{", "}",
                                             "'", "\"", "\\"})
    IN SubSeq(keyChars, 1, Min(50, Len(keyChars))) \o <<":">>
         \o SubSeq(valueChars, 1, Min(200, Len(valueChars)))

\* C7: buildLocator returns the comma-joined key:value pairs of the entries
\* whose value is not undefined, null or empty, in order, the key reduced to
\* [A-Za-z0-9_-] and 50 characters, the value without , ; ( ) [ ] { } ' " \
\* and cut to 200 characters, the first 20 pairs only; {status:'FAILURE',
\* count:5} gives 'status:FAILURE,count:5' and {name:'a,b'} gives 'name:ab'.
C7_LocatorOfParts ==
    (args.op = "buildLocator" /\ pc = "done") =>
        LET present == PresentEntries(args.parts)
            kept == Min(20, Len(present))
            pieces == IF kept = 0 THEN <<>> ELSE Split(outcome.value, ",")
        IN /\ outcome.kind = "return"
           /\ Len(pieces) = kept
           /\ \A i \in 1..kept : pieces[i] = ClaimedPair(present[i])
           /\ kept = 0 => outcome.value = <<>>
           /\ args.parts = Obj(<<Field(StatusKey, Str(Failure)), Field(CountKey, Num(5))>>)
                 => outcome.value = <<"s","t","a","t","u","s",":","F","A","I","L","U","R","E",",","c","o","u","n","t",":","5">>
           /\ args.parts = Obj(<<Field(NameKey, Str(<<"a", ",", "b">>))>>)
                 => outcome.value = <<"n","a","m","e",":","a","b">>

\* buildLocator was called with 25 entries of which 23 have a value, and gave
\* the pairs of the first 20 of these: k1, k3, k4, k6 .. k22
C7_Witness ==
    /\ args.op = "buildLocator"
    /\ pc = "done"
    /\ args.parts = ManyPartsWithGaps
    /\ Len(PresentEntries(args.parts)) = 23
    /\ Len(Split(outcome.value, ",")) = 20
    /\ Split(outcome.value, ",")[2] = <<"k","3",":","3">>
    /\ Split(outcome.value, ",")[20] = <<"k","2","2",":","2","2">>

----------------------------------------------------------------------------
(* The sanitizer specification: sanitizeParams, sanitizePostData and       *)
(* sanitizeQueryParams each applied to one input.                          *)

callSanitizeParams(params) ==
    /\ pc = "idle"
    /\ args' = [op |-> "sanitizeParams", input |-> params]
    /\ pc' = "done"
    /\ outcome' = ReturnValue("params", sanitizeParams(params))
    /\ UNCHANGED <<calls, sent, replies, held>>

callSanitizePostData(data) ==
    /\ pc = "idle"
    /\ args' = [op |-> "sanitizePostData", input |-> data]
    /\ pc' = "done"
    /\ outcome' = ReturnValue("data", sanitizePostData(data))
    /\ UNCHANGED <<calls, sent, replies, held>>

callSanitizeQueryParams(params) ==
    /\ pc = "idle"
    /\ args' = [op |-> "sanitizeQueryParams", input |-> params]
    /\ pc' = "done"
    /\ outcome' = ReturnValue("query", sanitizeQueryParams(params))
    /\ UNCHANGED <<calls, sent, replies, held>>

\* an object of n fields f1..fn that all hold value
Wide(n, value) == Obj([i \in 1..n |-> Field(<<"f">> \o NatToString(i), value)])

\* the values without parts: each type, and strings one past each limit
SanitizerLeaves ==
    { Str(<<"o","k">>), Str(Repeat("x", MaxParamString + 1)),
      Str(Repeat("x", MaxPostString + 1)), Num(5), NaN, Infinity, Bool(TRUE),
      Null, Undefined, Other(<<"1","0","n">>) }

\* arrays and objects at and past their limits, of values that need sanitizing
SanitizerContainers ==
    { Arr(<<>>), Obj(<<>>),
      Arr([i \in 1..MaxArrayItems |-> Num(i)]),
      Arr([i \in 1..(MaxArrayItems + 1) |-> NaN]),
      Arr(<<Arr([i \in 1..(MaxArrayItems + 1) |-> Infinity])>>),
      Wide(MaxNestedFields, Num(1)),
      Wide(MaxNestedFields + 1, Str(Repeat("x", MaxParamString + 1))),
      Wide(MaxPostFields, Num(1)),
      Wide(MaxPostFields + 1, NaN),
      Obj(<<Field(Repeat("k", MaxKeyLength + 1), Num(1))>>),
      Obj(<<Field(<<"a",".","b">>, Num(1)), Field(<<"a","b">>, NaN)>>) }

SanitizerValues ==
    SanitizerLeaves \cup SanitizerContainers
      \cup {Arr(<<value>>) : value \in SanitizerLeaves}
      \cup {Obj(<<Field(<<"n">>, value)>>) : value \in SanitizerLeaves \cup SanitizerContainers}

\* params of a get: undefined or an object
ParamInputs ==
    {Undefined} \cup {value \in SanitizerValues : value.t = "object"}
      \cup {Obj(<<Field(<<"l","o","c","a","t","o","r">>, value), Field(<<"f","i","e","l","d","s">>, Str(<<"i","d",",","n","a","m","e">>))>>) :
               value \in SanitizerLeaves \cup SanitizerContainers}

\* the data of a post: any value
PostInputs == SanitizerValues

\* query parameters of buildUrl: an object of strings and undefined
QueryInputs ==
    { Obj(<<>>),
      Obj(<<Field(<<"l","o","c","a","t","o","r">>, Str(<<"c","o","u","n","t",":","5">>)), Field(<<"f","i","e","l","d","s">>, Undefined)>>),
      Obj(<<Field(<<"a">>, Str(Repeat("x", MaxQueryValueLength + 1)))>>),
      Obj(<<Field(Repeat("k", MaxQueryKeyLength + 1), Str(<<>>)),
            Field(<<"?">>, Str(<<"v">>)), Field(<<"a",".","b">>, Str(<<"1">>)), Field(<<"a","b">>, Str(<<"2">>))>>),
      Wide(MaxQueryParams, Str(<<"v">>)),
      Wide(MaxQueryParams + 1, Str(<<"v">>)),
      Obj([i \in 1..(MaxQueryParams + 2) |->
              Field(<<"f">> \o NatToString(i), IF i = 3 THEN Undefined ELSE Str(<<"v">>))]) }

NextSanitize ==
    \/ \E params \in ParamInputs : callSanitizeParams(params)
    \/ \E data \in PostInputs : callSanitizePostData(data)
    \/ \E params \in QueryInputs : callSanitizeQueryParams(params)

SpecSanitize == Idle /\ [][NextSanitize]_vars

\* a value keeps the claimed limits: a string at most maxString long, an
\* object at most maxFields fields, an array at most 100 elements, no NaN or
\* Infinity; the parts of an array or object keep the general limits
RECURSIVE WithinLimits(_, _, _)
WithinLimits(value, maxString, maxFields) ==
    CASE value.t = "string" -> Len(value.s) <= maxString
      [] value.t \in {"NaN", "Infinity"} -> FALSE
      [] value.t = "array" ->
            /\ Len(value.kids) <= 100
            /\ \A i \in 1..Len(value.kids) : WithinLimits(value.kids[i].v, 1000, 50)
      [] value.t = "object" ->
            /\ Len(value.kids) <= maxFields
            /\ \A i \in 1..Len(value.kids) :
                  /\ Len(value.kids[i].k) <= 1000
                  /\ WithinLimits(value.kids[i].v, 1000, 50)
      [] OTHER -> TRUE

\* C8: whatever the input, the output of sanitizeParams has strings of at
\* most 1000 characters and objects of at most 50 fields; the output of
\* sanitizePostData (for a body of any type, a top-level number or array
\* included) has a top-level string of at most 10000 characters or a top-level
\* object of at most 100 fields, the general limits below; the output of
\* sanitizeQueryParams has at most 20 fields, each a string of at most 500
\* characters; no array has more than 100 elements and no number is NaN or
\* Infinity.
C8_SanitizedWithinLimits ==
    pc = "done" =>
        CASE args.op = "sanitizeParams" -> WithinLimits(outcome.value, 1000, 50)
          [] args.op = "sanitizePostData" -> WithinLimits(outcome.value, 10000, 100)
          [] args.op = "sanitizeQueryParams" ->
                /\ outcome.value.t = "object"
                /\ Len(outcome.value.kids) <= 20
                /\ \A i \in 1..Len(outcome.value.kids) :
                      /\ outcome.value.kids[i].v.t = "string"
                      /\ Len(outcome.value.kids[i].v.s) <= 500
          [] OTHER -> TRUE

----------------------------------------------------------------------------
(* listProjectHierarchy                                                    *)
(* The body of a project response: id is the project's id; projects is the *)
(* shape of its projects field ("absent": no such field, "noProject": the  *)
(* field without a project member, "single": project is one object,       *)
(* "array": project is an array, "text": the body is not an object but a   *)
(* string); kids are the ids of the child projects it lists.              *)

ProjectBody(id, projects, kids) == [id |-> id, projects |-> projects, kids |-> kids]

\* `/projects/id:${projectId}` and the fields of the hierarchy request
projectEndpoint(projectId) == <<"/","p","r","o","j","e","c","t","s","/","i","d",":">> \o projectId
hierarchyParams ==
    Obj(<<Field(<<"f","i","e","l","d","s">>, Str(<<"p","r","o","j","e","c",
          "t","(","i","d",",","n","a","m","e",",","d","e","s","c","r","i",
          "p","t","i","o","n",",","p","a","r","e","n","t","P","r","o","j",
          "e","c","t","I","d",",","a","r","c","h","i","v","e","d",",","b",
          "u","i","l","d","T","y","p","e","s","(","c","o","u","n","t",")",
          ",","p","r","o","j","e","c","t","s","(","p","r","o","j","e","c",
          "t","(","i","d",",","n","a","m","e",",","d","e","s","c","r","i",
          "p","t","i","o","n",",","a","r","c","h","i","v","e","d",",","b",
          "u","i","l","d","T","y","p","e","s","(","c","o","u","n","t",")",
          ")",")",")">>))>>)

\* rootProjectId || '_Root'
startProjectId(rootProjectId) ==
    IF rootProjectId.t = "string" /\ rootProjectId.s # <<>> THEN rootProjectId.s
    ELSE <<"_","R","o","o","t">>

\* childProjects: projects.project as an array, [] when there is none
childProjects_arrayOnly(body) ==
    IF body.projects = "array" THEN body.kids ELSE <<>>
childProjects(body) ==
    CASE body.projects = "array" -> body.kids
      [] body.projects = "single" -> <<body.kids[1]>>
      [] OTHER -> <<>>

\* the project data of id with its children, from the bodies fetched
RECURSIVE hierarchyOf(_, _)
hierarchyOf(id, bodies) ==
    LET body == CHOOSE b \in bodies : b.id = id
    IN [id |-> id,
        children |-> [i \in 1..Len(childProjects(body)) |->
                         hierarchyOf(childProjects(body)[i], bodies)]]

RECURSIVE countProjectsInHierarchy(_)
countProjectsInHierarchy(project) ==
    LET RECURSIVE sum(_)
        sum(n) == IF n = 0 THEN 0
                  ELSE sum(n - 1) + countProjectsInHierarchy(project.children[n])
    IN 1 + sum(Len(project.children))

\* the call up to the await of the first get
listProjectHierarchy(rootProjectId) ==
    LET start == startProjectId(rootProjectId)
        endpoint == projectEndpoint(start)
    IN /\ pc = "idle"
       /\ args' = [op |-> "listProjectHierarchy", rootProjectId |-> rootProjectId]
       /\ calls' = <<Call("get", endpoint)>>
       /\ replies' = replies
       /\ IF validateEndpoint(endpoint) = "ok"
          THEN /\ pc' = "hierarchy"
               /\ sent' = <<Req("GET", endpoint, sanitizeParams(hierarchyParams))>>
               /\ held' = [error |-> NoError, cancelError |-> NoError,
                           bodies |-> {}, outstanding |-> {start}]
               /\ outcome' = outcome
          ELSE /\ pc' = "done"
               /\ outcome' = Raise(Error("validation", 1))
               /\ UNCHANGED <<sent, held>>

\* the get of project id settles.  A failure rejects every Promise.all above
\* it at once, so the caller has the error while the other requests go on; a
\* body with children starts one get per child, in order; the last answer
\* resolves the root.  c, s and r are the calls, requests and answers on
\* record, to which those of this step are added.
fetchProjectRecursive(id, reply, c, s, r) ==
    /\ pc = "hierarchy"
    /\ id \in held.outstanding
    /\ replies' = Append(r, reply)
    /\ args' = args
    /\ LET resolved == Resolves(reply) /\ reply.body.projects # "text"
           kids == IF resolved THEN childProjects(reply.body) ELSE <<>>
           valid == SelectSeq(kids,
                        LAMBDA k : validateEndpoint(projectEndpoint(k)) = "ok")
           error == CASE ~Resolves(reply) -> handleSecureError(reply, 0)
                      \* projectData.children = [] on a string: a TypeError
                      [] ~resolved -> Error("type", 0)
                      [] Len(valid) < Len(kids) -> Error("validation", 0)
                      [] OTHER -> NoError
           bodies == IF resolved THEN held.bodies \cup {reply.body} ELSE held.bodies
           outstanding == (held.outstanding \ {id}) \cup Range(valid)
           root == startProjectId(args.rootProjectId)
           failed == outcome.kind = "raise" \/ error # NoError
       IN /\ calls' = c \o [i \in 1..Len(kids) |-> Call("get", projectEndpoint(kids[i]))]
          /\ sent' = s \o [i \in 1..Len(valid) |->
                                 Req("GET", projectEndpoint(valid[i]),
                                     sanitizeParams(hierarchyParams))]
          /\ held' = [held EXCEPT !.bodies = bodies, !.outstanding = outstanding]
          /\ pc' = IF outstanding = {} THEN "done" ELSE "hierarchy"
          /\ outcome' =
                CASE outcome.kind = "raise" -> outcome
                  [] error # NoError -> Raise(error)
                  [] outstanding = {} ->
                        ReturnValue("hierarchy",
                            [rootProject |-> root,
                             hierarchy |-> hierarchyOf(root, bodies),
                             totalProjects |->
                                 countProjectsInHierarchy(hierarchyOf(root, bodies))])
                  [] OTHER -> outcome

\* the step with every call, request and answer kept on record
hierarchy_get(id, reply) == fetchProjectRecursive(id, reply, calls, sent, replies)

----------------------------------------------------------------------------
(* The hierarchy specification: one listProjectHierarchy call against a    *)
(* server whose project tree has at most MaxProjectDepth levels below the  *)
(* root; the ids of the children of a project extend the project's id.     *)

MaxProjectDepth == 2

\* what the server can answer to the get of project id
ProjectReplies(id, root) ==
    LET depth == Len(id) - Len(root)
        names == IF depth >= MaxProjectDepth THEN {<<>>}
                 ELSE {<<>>, <<"a">>, <<"b", "a">>, <<"a", ";">>}
        bodies == {ProjectBody(id, "array", [i \in 1..Len(n) |-> id \o <<n[i]>>]) :
                      n \in names}
                    \cup {ProjectBody(id, "single", <<id \o <<n[1]>> >>) :
                             n \in {m \in names : Len(m) = 1}}
                    \cup {ProjectBody(id, "absent", <<>>),
                          ProjectBody(id, "noProject", <<>>)}
    IN {TransportFailure}
         \cup {Response(200, "undefined", body) : body \in bodies}
         \cup {Response(404, "undefined", ProjectBody(id, "text", <<>>))}

NextHierarchy ==
    \/ \E rootProjectId \in {Undefined, Str(<<>>), Str(<<"P">>), Str(<<"P", "<">>)} :
          listProjectHierarchy(rootProjectId)
    \/ \E id \in (IF pc = "hierarchy" THEN held.outstanding ELSE {}) :
          \E reply \in ProjectReplies(id, startProjectId(args.rootProjectId)) :
             hierarchy_get(id, reply)

SpecHierarchy == Idle /\ [][NextHierarchy]_vars

\* the child projects the server reported for project id: the ids its answer
\* listed (one for a single object), none when it listed nothing
ReportedChildren(id) ==
    LET answer == CHOOSE r \in Range(replies) : r.kind = "response" /\ r.body.id = id
    IN IF answer.body.projects \in {"array", "single"} THEN answer.body.kids ELSE <<>>

\* every node of a returned tree lists the reported children in their order
RECURSIVE ChildrenAsReported(_)
ChildrenAsReported(project) ==
    /\ Len(project.children) = Len(ReportedChildren(project.id))
    /\ \A i \in 1..Len(project.children) :
          /\ project.children[i].id = ReportedChildren(project.id)[i]
          /\ ChildrenAsReported(project.children[i])

\* the ids of the nodes of a returned tree
RECURSIVE NodesOf(_)
NodesOf(project) ==
    {project.id} \cup UNION {NodesOf(project.children[i]) : i \in 1..Len(project.children)}

\* C11: in the result of listProjectHierarchy every fetched project has the
\* children the server reported for it, as many and in that order ([] when it
\* reported none), and totalProjects is the number of nodes of the tree
\* returned, which are the projects fetched.
C11_HierarchyAsReported ==
    (args.op = "listProjectHierarchy" /\ pc = "done" /\ outcome.kind = "return") =>
        /\ ChildrenAsReported(outcome.value.hierarchy)
        /\ outcome.value.totalProjects = Cardinality(NodesOf(outcome.value.hierarchy))
        /\ outcome.value.totalProjects = Len(replies)
        /\ NodesOf(outcome.value.hierarchy) = {r.body.id : r \in Range(replies)}

\* a tree of five projects was returned: the root lists b before a, b has one
\* child given as a single object, a has one and reports none below it
C11_Witness ==
    /\ args.op = "listProjectHierarchy"
    /\ pc = "done"
    /\ outcome.kind = "return"
    /\ outcome.value.totalProjects = 5
    /\ Len(outcome.value.hierarchy.children) = 2
    /\ outcome.value.hierarchy.children[1].id = <<"_","R","o","o","t","b">>
    /\ \E r \in Range(replies) : r.body.id = <<"_","R","o","o","t","b"
          >> /\ r.body.projects = "single"
    /\ outcome.value.hierarchy.children[2].children[1].children = <<>>

----------------------------------------------------------------------------
(* downloadArtifact                                                        *)

\* `/builds/id:${buildId}/artifacts/${kind}/${path}`, kind metadata or content
artifactEndpoint(buildId, kind, path) ==
    BuildsIdPrefix \o buildId \o <<"/","a","r","t","i","f","a","c","t","s",
          "/">> \o kind \o <<"/">> \o path

DefaultContentType == <<"a","p","p","l","i","c","a","t","i","o","n","/","o",
      "c","t","e","t","-","s","t","r","e","a","m">>

\* 10 * 1024 * 1024
MaxInlineSize == 10485760

isLikelyBinary_never(contentType) == FALSE
isLikelyBinary(contentType) ==
    /\ ~MatchAt(contentType, 1, <<"t","e","x","t","/">>, FALSE)
    /\ ~Contains(contentType, <<"j","s","o","n">>, FALSE)
    /\ ~Contains(contentType, <<"x","m","l">>, FALSE)
    /\ ~Contains(contentType, <<"y","a","m","l">>, FALSE)
    /\ ~Contains(contentType, <<"y","m","l">>, FALSE)

isLargeFile(size) == size > MaxInlineSize

\* the rest of downloadArtifact once the metadata try block is over: the
\* download_info result, or the getText of the content endpoint
artifactAfterMetadata(buildId, path, contentType, size, c, s) ==
    LET endpoint == artifactEndpoint(buildId, <<"c","o","n","t","e","n","t">>, path)
        c2 == Append(c, Call("getText", endpoint))
    IN /\ held' = [error |-> NoError, cancelError |-> NoError,
                   contentType |-> contentType]
       /\ IF isLargeFile(size) \/ isLikelyBinary(contentType)
          THEN /\ pc' = "done"
               /\ calls' = c
               /\ sent' = s
               /\ outcome' = ReturnValue("artifact",
                                 [type |-> "download_info", contentType |-> contentType,
                                  size |-> size, content |-> <<>>])
          ELSE IF validateEndpoint(endpoint) = "ok"
          THEN /\ pc' = "artifact_content"
               /\ calls' = c2
               /\ sent' = Append(s, Req("GET", endpoint, Undefined))
               /\ outcome' = outcome
          ELSE /\ pc' = "done"
               /\ calls' = c2
               /\ sent' = s
               /\ outcome' = Raise(Error("validation", Len(c2)))

\* the call up to the await of the metadata; a metadata endpoint the validator
\* refuses raises inside the inner try, whose catch ignores it
downloadArtifact(buildId, path) ==
    LET metadataEndpoint == artifactEndpoint(buildId, <<"m","e","t","a","d","a","t","a">>, path)
        c == Append(calls, Call("get", metadataEndpoint))
    IN /\ pc = "idle"
       /\ args' = [op |-> "downloadArtifact", buildId |-> buildId, path |-> path]
       /\ replies' = replies
       /\ IF validateEndpoint(metadataEndpoint) = "ok"
          THEN /\ pc' = "artifact_metadata"
               /\ calls' = c
               /\ sent' = Append(sent, Req("GET", metadataEndpoint, sanitizeParams(Undefined)))
               /\ UNCHANGED <<held, outcome>>
          ELSE artifactAfterMetadata(buildId, path, DefaultContentType, 0, c, sent)

\* the get of the metadata settles: contentType and size are taken from the
\* body of any response, the defaults when it has none or the request failed
artifact_metadata(reply) ==
    /\ pc = "artifact_metadata"
    /\ replies' = Append(replies, reply)
    /\ args' = args
    /\ LET metadata == reply.body
           contentType == IF Resolves(reply) /\ metadata.contentType.t = "string"
                             /\ metadata.contentType.s # <<>>
                          THEN metadata.contentType.s ELSE DefaultContentType
           size == IF Resolves(reply) /\ metadata.size.t = "number" THEN metadata.size.n
                   ELSE 0
       IN artifactAfterMetadata(args.buildId, args.path, contentType, size, calls, sent)

\* the getText of the content settles
artifact_content(reply) ==
    /\ pc = "artifact_content"
    /\ replies' = Append(replies, reply)
    /\ IF Resolves(reply)
       THEN LET content == sanitizeTextContent(reply.body)
            IN Finish(ReturnValue("artifact",
                          [type |-> "content", contentType |-> held.contentType,
                           size |-> Len(content), content |-> content]), calls, sent)
       ELSE Finish(Raise(handleSecureError(reply, Len(calls))), calls, sent)

----------------------------------------------------------------------------
(* The artifact specification: one downloadArtifact call; the server       *)
(* answers the metadata request with any content type and size, or not at  *)
(* all, and the content request in any way.                                *)

\* the body of a metadata response
Metadata(contentType, size) == [contentType |-> contentType, size |-> size]

MetadataReplies ==
    LET types == {Undefined, Str(<<>>), Str(<<"t","e","x","t","/","p","l",
          "a","i","n">>), Str(<<"T","e","x","t","/","p","l","a","i","n">>),
                  Str(<<"a","p","p","l","i","c","a","t","i","o","n","/","j",
                        "s","o","n">>), Str(<<"i","m","a","g","e","/","s",
                        "v","g","+","x","m","l">>),
                  Str(<<"a","p","p","l","i","c","a","t","i","o","n","/","x",
                        "-","y","a","m","l">>), Str(<<"a","p","p","l","i",
                        "c","a","t","i","o","n","/","x","-","y","m","l">>),
                  Str(<<"a","p","p","l","i","c","a","t","i","o","n","/","t",
                        "e","x","t","/">>), Str(<<"a","p","p","l","i","c",
                        "a","t","i","o","n","/","o","c","t","e","t","-","s",
                        "t","r","e","a","m">>),
                  Str(<<"i","m","a","g","e","/","p","n","g">>)}
        sizes == {Undefined, Num(0), Num(1024), Num(MaxInlineSize),
                  Num(MaxInlineSize + 1)}
    IN {[TransportFailure EXCEPT !.body = Metadata(Undefined, Undefined)]}
         \cup {Response(200, "undefined", Metadata(t, n)) : t \in types, n \in sizes}
         \cup {Response(404, "undefined", Metadata(Undefined, Undefined))}

NextArtifact ==
    \/ \E path \in {<<"a",".","t","x","t">>, <<"l","o","g","s","/","b",".",
          "j","s","o","n">>, <<".",".","/","c">>} : downloadArtifact(<<"1",
          "2">>, path)
    \/ \E reply \in MetadataReplies : artifact_metadata(reply)
    \/ \E reply \in RequestReplies : artifact_content(reply)

SpecArtifact == Idle /\ [][NextArtifact]_vars

\* what the metadata said of the artifact of a finished downloadArtifact: the
\* content type and size of the metadata response, if there was one
MetadataSeen ==
    IF replies # <<>> /\ replies[1].kind = "response"
    THEN replies[1].body ELSE Metadata(Undefined, Undefined)

\* the content type starts with text/ or has one of the words in it
TextType(contentType, words) ==
    /\ contentType.t = "string"
    /\ \/ SubSeq(contentType.s, 1, Min(5, Len(contentType.s))) = <<"t","e","x","t","/">>
       \/ \E w \in words : \E i \in 1..Len(contentType.s) :
             SubSeq(contentType.s, i, Min(i + Len(w) - 1, Len(contentType.s))) = w

\* the size is known and over 10 MB
Oversized(size) == size.t = "number" /\ size.n > 10 * 1024 * 1024

\* the claim of C12 for a given list of words that mark a text type
InlineOnlySmallText(words) ==
    (args.op = "downloadArtifact" /\ pc = "done") =>
        /\ (outcome.kind = "return" /\ outcome.value.type = "content") =>
              /\ TextType(MetadataSeen.contentType, words)
              /\ ~Oversized(MetadataSeen.size)
        /\ (~TextType(MetadataSeen.contentType, words) \/ Oversized(MetadataSeen.size)) =>
              /\ outcome.kind = "return"
              /\ outcome.value.type = "download_info"
              /\ \A i \in 1..Len(calls) : calls[i].op # "getText"
              /\ Len(sent) <= 1

\* C12 as stated: inline content only for an artifact whose metadata gives a
\* content type text/*, json, xml or yaml and a size of at most 10 MB; a
\* binary or larger artifact gives download_info and no content request.
C12_InlineOnlySmallText ==
    InlineOnlySmallText({<<"j","s","o","n">>, <<"x","m","l">>, <<"y","a","m","l">>})

\* C12 amended: the same with content types naming yml counted as text too.
C12_InlineOnlySmallTextOrYml ==
    InlineOnlySmallText({<<"j","s","o","n">>, <<"x","m","l">>, <<"y","a",
          "m","l">>, <<"y","m","l">>})

\* a text artifact of exactly 10 MB was returned inline, after a metadata and
\* a content request
C12_Witness ==
    /\ args.op = "downloadArtifact"
    /\ pc = "done"
    /\ outcome.kind = "return"
    /\ outcome.value.type = "content"
    /\ MetadataSeen = Metadata(Str(<<"t","e","x","t","/","p","l","a","i","n">>), Num(10485760))
    /\ Len(sent) = 2

----------------------------------------------------------------------------
(* Secure error translation (src/src/utils/security.ts)                    *)
(* An error value: its class (AxiosError, ZodError, Error, or "string" for *)
(* a thrown non-object), the status of its response property (NoResponse  *)
(* when it has no such property, NoStatus when the response has no status),*)
(* its message (for a ZodError the joined messages of its issues), and the *)
(* code and requestId properties it carries ("" and <<>> when it has none).*)

NoResponse == 0 - 1
NoStatus == 0

JsError(class, status, message) ==
    [class |-> class, status |-> status, message |-> message,
     code |-> "", requestId |-> <<>>]

ErrorCodes ==
    {"VALIDATION_ERROR", "RESOURCE_NOT_FOUND", "AUTHENTICATION_FAILED",
     "EXTERNAL_SERVICE_ERROR", "INTERNAL_ERROR", "CONFIGURATION_ERROR"}

\* createSafeError(error, context, code) at the time now of Date.now()
createSafeError(error, operation, code, now) ==
    [code |-> IF error.class = "ZodError" THEN "VALIDATION_ERROR" ELSE code,
     message |-> CASE error.class = "ZodError" -> <<"V","a","l","i","d","a",
           "t","i","o","n"," ","f","a","i","l","e","d",":"," "
           >> \o error.message
                   [] error.class \in {"AxiosError", "Error"} -> error.message
                   [] OTHER -> <<"A","n"," ","e","r","r","o","r"," ","o",
                         "c","c","u","r","r","e","d">>,
     requestId |-> operation \o <<"_">> \o NatToString(now)]

\* the code handleHttpError chooses for an error
httpErrorCode_notFoundAsExternal(error) ==
    IF error.class # "string" /\ error.status = 401 THEN "AUTHENTICATION_FAILED"
    ELSE "EXTERNAL_SERVICE_ERROR"
httpErrorCode(error) ==
    IF error.class # "string" /\ error.status # NoResponse
    THEN CASE error.status = 401 -> "AUTHENTICATION_FAILED"
           [] error.status = 404 -> "RESOURCE_NOT_FOUND"
           [] error.status >= 500 -> "EXTERNAL_SERVICE_ERROR"
           [] OTHER -> "EXTERNAL_SERVICE_ERROR"
    ELSE "EXTERNAL_SERVICE_ERROR"

handleHttpError(error, operation, now) ==
    createSafeError(error, operation, httpErrorCode(error), now)

\* context.operation of handleSecureError
ApiRequestOperation ==
    <<"t","e","a","m","c","i","t","y","_","a",
      "p","i","_","r","e","q","u","e","s","t">>

\* the response interceptor's rejected handler run on a failed request: the
\* SafeError is computed, and a new Error with its message is thrown
rejected(error, now) ==
    LET safeError == handleHttpError(error, ApiRequestOperation, now)
    IN /\ pc = "idle"
       /\ pc' = "done"
       /\ args' = [op |-> "handleSecureError", error |-> error, now |-> now]
       /\ held' = [error |-> NoError, cancelError |-> NoError, safeError |-> safeError]
       /\ outcome' = Raise(JsError("Error", NoResponse, safeError.message))
       /\ UNCHANGED <<calls, sent, replies>>

----------------------------------------------------------------------------
(* The translation specification: one failed request reaches the response  *)
(* interceptor with an error of any kind.                                  *)

\* the token of TEAMCITY_BEARER_TOKEN
BearerToken == <<"s","3","c","r","3","t">>

FailureMessages ==
    { <<"N","e","t","w","o","r","k"," ","E","r","r","o","r">>, <<"t","i",
          "m","e","o","u","t"," ","o","f"," ","3","0","0","0","0","m","s",
          " ","e","x","c","e","e","d","e","d">>,
      <<"R","e","q","u","e","s","t"," ","f","a","i","l","e","d"," ","w","i",
            "t","h"," ","s","t","a","t","u","s"," ","c","o","d","e"," ","5",
            "0","3">>,
      <<"I","n","v","a","l","i","d"," ","c","h","a","r","a","c","t","e","r",
            " ","i","n"," ","h","e","a","d","e","r"," ","c","o","n","t","e",
            "n","t"," ","[","\"","A","u","t","h","o","r","i","z","a","t",
            "i","o","n","\"","]",":"," ","B","e","a","r","e","r"," "
            >> \o BearerToken }

FailedRequests ==
    {JsError("AxiosError", status, message) :
        status \in {NoResponse, NoStatus, 400, 401, 403, 404, 499, 500, 503, 600},
        message \in FailureMessages}
      \cup {JsError(class, NoResponse, message) :
               class \in {"Error", "ZodError", "string"}, message \in FailureMessages}

\* values of Date.now() (in seconds, to stay within 32-bit integers)
Timestamps == {1700000000, 1700000001}

NextTranslate == \E error \in FailedRequests, now \in Timestamps :
                    rejected(error, now)

SpecTranslate == Idle /\ [][NextTranslate]_vars

\* C13: for a transport failure handleHttpError gives AUTHENTICATION_FAILED
\* for status 401, RESOURCE_NOT_FOUND for 404, EXTERNAL_SERVICE_ERROR for a
\* status of 500 or more, and EXTERNAL_SERVICE_ERROR in every other case, a
\* failure without a response included.
C13_StatusToCode ==
    (args.op = "handleSecureError" /\ pc = "done" /\ args.error.class = "AxiosError") =>
        /\ args.error.status = 401 => held.safeError.code = "AUTHENTICATION_FAILED"
        /\ args.error.status = 404 => held.safeError.code = "RESOURCE_NOT_FOUND"
        /\ args.error.status >= 500 => held.safeError.code = "EXTERNAL_SERVICE_ERROR"
        /\ args.error.status \notin {401, 404} =>
              held.safeError.code = "EXTERNAL_SERVICE_ERROR"

\* a failure with status 404 was translated to RESOURCE_NOT_FOUND
C13_Witness ==
    /\ args.op = "handleSecureError"
    /\ pc = "done"
    /\ args.error = JsError("AxiosError", 404, <<"N","e","t","w","o","r",
          "k"," ","E","r","r","o","r">>)
    /\ held.safeError.code = "RESOURCE_NOT_FOUND"

\* C14: the message of the error raised for a transport failure is not the
\* message of the original exception and does not contain the bearer token.
C14_MessageNotOriginal ==
    (args.op = "handleSecureError" /\ pc = "done" /\ args.error.class = "AxiosError") =>
        /\ outcome.error.message # args.error.message
        /\ ~Contains(outcome.error.message, BearerToken, FALSE)

\* C18: the error raised for a failed request carries a code of the closed
\* enumeration and a correlation id made of the operation name and the
\* timestamp.
C18_RaisedErrorCarriesCodeAndId ==
    (args.op = "handleSecureError" /\ pc = "done") =>
        /\ outcome.kind = "raise"
        /\ outcome.error.code \in ErrorCodes
        /\ outcome.error.requestId =
              <<"t","e","a","m","c","i","t","y","_","a","p","i","_","r","e",
                    "q","u","e","s","t","_">> \o NatToString(args.now)

----------------------------------------------------------------------------
(* The teamcity tool handler, trigger build (src/src/index.ts)             *)

\* createMcpError(message, code): an Error with a code property
createMcpError(message, code) == [JsError("Error", NoResponse, message) EXCEPT !.code = code]

\* a value is falsy: undefined, null, the empty string, 0, NaN or false
falsy(value) ==
    \/ value.t \in {"undefined", "null", "NaN"}
    \/ value \in {Str(<<>>), Num(0), Bool(FALSE)}

\* !params.buildTypeId && !params.projectName
missingBuildType_never(params) == FALSE
missingBuildType(params) == falsy(params.buildTypeId) /\ falsy(params.projectName)

\* the branch the handler sets from the words of the action before it calls
\* triggerBuild
branchOfAction(words, branch) ==
    LET afterDev == IF "dev" \in words THEN Str(<<"d","e","v">>) ELSE branch
        afterMaster == IF "master" \in words \/ "main" \in words THEN Str(<<
              "m","a","s","t","e","r">>)
                       ELSE afterDev
    IN IF "staging" \in words /\ falsy(afterMaster) THEN Str(<<"d","e","v">>) ELSE afterMaster

\* buildRequest
buildRequest(params) ==
    Obj(<<Field(<<"b","u","i","l","d","T","y","p","e">>,
                Obj(<<Field(<<"i","d">>, IF falsy(params.buildTypeId) THEN params.projectName
                                  ELSE params.buildTypeId)>>))>>
          \o (IF falsy(params.branch) THEN <<>>
              ELSE <<Field(<<"b","r","a","n","c","h","N","a","m","e">>, params.branch)>>)
          \o (IF falsy(params.comment) THEN <<>>
              ELSE <<Field(<<"c","o","m","m","e","n","t">>, Obj(<<Field(<<
                    "t","e","x","t">>, params.comment)>>))>>)
          \o (IF params.personal THEN <<Field(<<"p","e","r","s","o","n","a",
                "l">>, Bool(TRUE))>> ELSE <<>>))

\* the catch of the tool handler: an error with a code is re-thrown as it is,
\* any other becomes an MCP InternalError with the same message
toolCatch(error) ==
    IF error.code # "" THEN error
    ELSE createMcpError(createSafeError(error, <<"t","e","a","m","c","i",
          "t","y">>, "INTERNAL_ERROR", 0).message,
                        "InternalError")

\* the tool handler called with a trigger/start build action, up to the await
\* of the post
triggerBuild(words, given) ==
    LET params == [given EXCEPT !.branch = branchOfAction(words, given.branch)]
        endpoint == <<"/","b","u","i","l","d","Q","u","e","u","e">>
    IN /\ pc = "idle"
       /\ args' = [op |-> "triggerBuild", params |-> params]
       /\ UNCHANGED <<replies, held>>
       /\ IF missingBuildType(params)
          THEN /\ pc' = "done"
               /\ outcome' = Raise(toolCatch(createMcpError(
                                 <<"B","u","i","l","d"," ","t","r","i","g",
                                       "g","e","r"," ","r","e","q","u","i",
                                       "r","e","s"," ","s","p","e","c","i",
                                       "f","i","c"," ","b","u","i","l","d",
                                       " ","t","y","p","e"," ","I","D">>,
                                 "InvalidParams")))
               /\ UNCHANGED <<calls, sent>>
          ELSE /\ pc' = "trigger_post"
               /\ calls' = Append(calls, Call("post", endpoint))
               /\ sent' = Append(sent, Req("POST", endpoint,
                                           sanitizePostData(buildRequest(params))))
               /\ outcome' = outcome

\* the post to /buildQueue settles
trigger_post(reply) ==
    /\ pc = "trigger_post"
    /\ replies' = Append(replies, reply)
    /\ IF Resolves(reply)
       THEN Finish(ReturnValue("content", reply.body), calls, sent)
       ELSE Finish(Raise(toolCatch(JsError("Error", NoResponse, reply.body))), calls, sent)

----------------------------------------------------------------------------
(* The trigger specification: one trigger-build action with any parameters *)

TriggerParams ==
    [buildTypeId : {Undefined, Str(<<>>), Str(<<"B","t","1">>)},
     projectName : {Undefined, Str(<<>>), Str(<<"M","y","A","p","p">>)},
     branch : {Undefined, Str(<<"m","a","i","n">>)},
     comment : {Undefined, Str(<<"g","o">>)},
     personal : BOOLEAN]

NextTrigger ==
    \/ \E words \in SUBSET {"dev", "master", "staging"}, given \in TriggerParams :
          triggerBuild(words, given)
    \/ \E reply \in {[TransportFailure EXCEPT !.body = m] : m \in FailureMessages}
                      \cup {Response(status, "", <<>>) : status \in Statuses} :
          trigger_post(reply)

SpecTrigger == Idle /\ [][NextTrigger]_vars

\* C15: a trigger-build action whose parameters have neither a build type id
\* nor a project name ends with a raised error of the validation class
\* (InvalidParams), not with a returned result, and no request was made.
C15_TriggerNeedsBuildType ==
    (/\ args.op = "triggerBuild"
     /\ args.params.buildTypeId \in {Undefined, Str(<<>>)}
     /\ args.params.projectName \in {Undefined, Str(<<>>)})
      => /\ pc = "done"
         /\ outcome.kind = "raise"
         /\ outcome.error.code = "InvalidParams"
         /\ calls = <<>>
         /\ sent = <<>>

\* a trigger action with a branch and a comment but no build type id and no
\* project name was refused
C15_Witness ==
    /\ args.op = "triggerBuild"
    /\ args.params.buildTypeId = Undefined
    /\ args.params.projectName = Undefined
    /\ args.params.branch = Str(<<"m","a","s","t","e","r">>)
    /\ args.params.comment = Str(<<"g","o">>)
    /\ outcome.kind = "raise"
    /\ sent = <<>>

\* C16: a response whose status is not 2xx is never given to the caller of
\* get, post, delete or getText as a result: the call raises.
C16_NonSuccessStatusRaises ==
    (/\ args.op \in {"get", "post", "delete", "getText"}
     /\ pc = "done"
     /\ replies # <<>>
     /\ replies[Len(replies)].kind = "response"
     /\ replies[Len(replies)].status \notin 200..299)
      => outcome.kind = "raise"

----------------------------------------------------------------------------
(* The constructor                                                         *)

\* new URL(input): whether it parses and its protocol.  The input is
\* trimmed; it needs a scheme (a letter, then letters, digits, + - .) before
\* a colon, and for the schemes http, https, ws, wss and ftp a host after it.
parseUrl(input) ==
    LET s == Trim(input)
        letters == Range(UpperChars) \cup Range(LowerChars)
        colons == {i \in 1..Len(s) : s[i] = ":"}
        colon == IF colons = {} THEN 0 ELSE CHOOSE i \in colons : \A j \in colons : i <= j
        hasScheme == /\ colon > 1
                     /\ s[1] \in letters
                     /\ \A i \in 2..(colon - 1) :
                           s[i] \in letters \cup Range(DigitChars) \cup {"+", "-", "."}
        scheme == [i \in 1..(colon - 1) |-> ToLower(s[i])]
        rest == SubSeq(s, colon + 1, Len(s))
        slashes == RunLength(rest, 1, {"/", "\\"}, TRUE)
        host == RunLength(rest, slashes + 1, {"/", "\\", "?", "#"}, FALSE)
    IN IF ~hasScheme THEN [ok |-> FALSE, protocol |-> <<>>]
       ELSE IF scheme \in {<<"h","t","t","p">>, <<"h","t","t","p","s">>, <<
             "w","s">>, <<"w","s","s">>, <<"f","t","p">>} /\ host = 0
       THEN [ok |-> FALSE, protocol |-> <<>>]
       ELSE [ok |-> TRUE, protocol |-> scheme \o <<":">>]

\* ['http:', 'https:'].includes(url.protocol)
protocolAllowed_any(protocol) == TRUE
protocolAllowed(protocol) == protocol \in {<<"h","t","t","p",":">>, <<"h","t","t","p","s",":">>}

\* isReady()
isReady == held.isConfigured

\* new TeamCityClient() in main: the environment is read and checked; the
\* client exists only when nothing was thrown
constructor ==
    LET serverUrl == held.serverUrl
        bearerToken == held.bearerToken
        message ==
            CASE serverUrl = <<>> ->
                    <<"T","E","A","M","C","I","T","Y","_","S","E","R","V",
                          "E","R","_","U","R","L"," ","e","n","v","i","r",
                          "o","n","m","e","n","t"," ","v","a","r","i","a",
                          "b","l","e"," ","i","s"," ","r","e","q","u","i",
                          "r","e","d">>
              [] bearerToken = <<>> ->
                    <<"T","E","A","M","C","I","T","Y","_","B","E","A","R",
                          "E","R","_","T","O","K","E","N"," ","e","n","v",
                          "i","r","o","n","m","e","n","t"," ","v","a","r",
                          "i","a","b","l","e"," ","i","s"," ","r","e","q",
                          "u","i","r","e","d">>
              [] ~parseUrl(serverUrl).ok \/ ~protocolAllowed(parseUrl(serverUrl).protocol) ->
                    <<"T","E","A","M","C","I","T","Y","_","S","E","R","V",
                          "E","R","_","U","R","L"," ","i","s"," ","n","o",
                          "t"," ","a"," ","v","a","l","i","d"," ","U","R",
                          "L">>
              [] OTHER -> <<>>
    IN /\ pc = "new"
       /\ UNCHANGED <<args, calls, sent, replies>>
       /\ IF message # <<>>
          THEN /\ pc' = "failed"
               /\ outcome' = Raise(JsError("Error", NoResponse, message))
               /\ held' = held
          ELSE /\ pc' = "idle"
               /\ outcome' = outcome
               /\ held' = [held EXCEPT !.isConfigured = TRUE,
                                       !.baseUrl = normalizeBaseUrl(serverUrl)]

----------------------------------------------------------------------------
(* The construction specification: the process starts with any environment,*)
(* constructs its client and, if it has one, makes one request.            *)

ServerUrls ==
    { <<>>, <<"t","c",".","e","x","a","m","p","l","e",".","c","o","m">>, <<
          "h","t","t","p","s",":","/","/","t","c",".","e","x","a","m","p",
          "l","e",".","c","o","m","/">>, <<" ","h","t","t","p",":","/","/",
          "t","c",":","8","1","1","1"," ">>,
      <<"H","T","T","P",":","/","/","t","c","/","a","p","p","/","r","e","s",
            "t">>, <<"h","t","t","p","s",":","/","/">>, <<"f","t","p",":",
            "/","/","t","c",".","e","x","a","m","p","l","e",".","c","o","m"
            >>,
      <<"f","i","l","e",":","/","/","/","e","t","c","/","p","a","s","s","w",
            "d">>, <<"j","a","v","a","s","c","r","i","p","t",":","a","l",
            "e","r","t","(","1",")">>, <<"/","/","t","c",".","e","x","a",
            "m","p","l","e",".","c","o","m">> }

InitConstruct ==
    /\ pc = "new"
    /\ args = [op |-> "none"]
    /\ calls = <<>>
    /\ sent = <<>>
    /\ replies = <<>>
    /\ outcome = Pending
    /\ \E serverUrl \in ServerUrls, bearerToken \in {<<>>, BearerToken} :
          held = [error |-> NoError, cancelError |-> NoError,
                  serverUrl |-> serverUrl, bearerToken |-> bearerToken,
                  isConfigured |-> FALSE, baseUrl |-> <<>>]

NextConstruct ==
    \/ constructor
    \/ \E endpoint \in {<<"/","s","e","r","v","e","r">>, <<"/","b","u","i",
          "l","d","s","?","l","o","c","a","t","o","r","=","c","o","u","n",
          "t",":","5">>, <<"/","a","/",".",".","/","b">>} :
          \/ get(endpoint, Undefined)
          \/ post(endpoint, Undefined)
          \/ delete(endpoint)
          \/ getText(endpoint)
          \/ getBinary(endpoint)
    \/ \E reply \in RequestReplies : request(reply)

SpecConstruct == InitConstruct /\ [][NextConstruct]_vars

\* the configuration is one the claim calls invalid
InvalidConfiguration ==
    \/ held.serverUrl = <<>>
    \/ held.bearerToken = <<>>
    \/ ~parseUrl(held.serverUrl).ok
    \/ parseUrl(held.serverUrl).protocol \notin {<<"h","t","t","p",":">>, <<
          "h","t","t","p","s",":">>}

\* C17: with a server URL that is missing, does not parse or has a scheme
\* other than http/https, or with an empty token, construction fails, no
\* operation runs and no request is issued; a client that exists is ready.
C17_NoClientWithoutConfiguration ==
    /\ InvalidConfiguration =>
          /\ pc \in {"new", "failed"}
          /\ calls = <<>>
          /\ sent = <<>>
          /\ pc = "failed" => outcome.kind = "raise"
    /\ pc \notin {"new", "failed"} => isReady

\* construction failed for an ftp URL with a token present, and nothing was
\* sent
C17_Witness ==
    /\ pc = "failed"
    /\ held.serverUrl = <<"f","t","p",":","/","/","t","c",".","e","x","a",
          "m","p","l","e",".","c","o","m">>
    /\ held.bearerToken # <<>>
    /\ outcome.kind = "raise"
    /\ sent = <<>>

\* the text of an endpoint after its first question mark
TextAfterFirstQuestionMark(endpoint) ==
    SubSeq(endpoint, Len(PathSegmentOf(endpoint)) + 2, Len(endpoint))

\* C19: a call whose endpoint has, anywhere after its first question mark,
\* one of < > ' " ` ; | $ or javascript:, data: or file: is refused: it
\* raises a validation error and nothing is sent.
C19_WholeQueryValidated ==
    (/\ args.op \in ClientMethods
     /\ LET query == TextAfterFirstQuestionMark(args.endpoint)
        IN \/ \E i \in 1..Len(query) :
                 query[i] \in {"<", ">", "'", "\"", Backtick, ";", "|", "$"}
           \/ \E scheme \in {JavascriptScheme, DataScheme, FileScheme} :
                 \E i \in 1..Len(query) :
                    /\ i + Len(scheme) - 1 <= Len(query)
                    /\ \A j \in 1..Len(scheme) : ToLower(query[i + j - 1]) = scheme[j])
      => /\ pc = "done"
         /\ outcome.kind = "raise"
         /\ outcome.error.class = "validation"
         /\ sent = <<>>

\* every key of every object in a value has only characters of [A-Za-z0-9_-],
\* at most 100 of them and at least one
RECURSIVE KeysClean(_)
KeysClean(value) ==
    CASE value.t = "object" ->
            \A i \in 1..Len(value.kids) :
               /\ value.kids[i].k # <<>>
               /\ Len(value.kids[i].k) <= 100
               /\ \A j \in 1..Len(value.kids[i].k) :
                     value.kids[i].k[j] \in Range(UpperChars) \cup Range(LowerChars)
                                               \cup Range(DigitChars) \cup {"_", "-"}
               /\ KeysClean(value.kids[i].v)
      [] value.t = "array" ->
            \A i \in 1..Len(value.kids) : KeysClean(value.kids[i].v)
      [] OTHER -> TRUE

\* C20: in the output of sanitizeParams and of sanitizePostData every object
\* key, at every depth, is non-empty, at most 100 characters long and made of
\* [A-Za-z0-9_-] only.
C20_OutputKeysClean ==
    (pc = "done" /\ args.op \in {"sanitizeParams", "sanitizePostData"}) =>
        KeysClean(outcome.value)

----------------------------------------------------------------------------
(* fetchBuildLog: the failures of its two requests                         *)

\* a request that failed as the specification counts failures: it had no
\* response, or a response with an error status
RequestFailed(reply) == reply.kind = "failure" \/ reply.status >= 400

\* a request that failed with not-found
FailedNotFound(reply) == reply.kind = "response" /\ reply.status = 404

\* the fallback endpoint was asked for (the validator may still refuse it)
FallbackRequested == \E i \in 1..Len(calls) : calls[i].op = "getText"

\* C21: the fallback endpoint is requested only after the primary request
\* has failed; the 'log not available' result is returned only when the
\* primary and the fallback request both failed with not-found; and when both
\* requests failed and one of the failures is not a not-found, the call has
\* raised.
C21_FallbackAndFailures ==
    args.op = "fetchBuildLog" =>
        /\ FallbackRequested => (Len(replies) >= 1 /\ RequestFailed(replies[1]))
        /\ (outcome.kind = "return" /\ outcome.value.mode = "error") =>
              /\ Len(replies) = 2
              /\ FailedNotFound(replies[1])
              /\ FailedNotFound(replies[2])
        /\ (/\ pc = "done"
            /\ Len(replies) = 2
            /\ RequestFailed(replies[1])
            /\ RequestFailed(replies[2])
            /\ ~(FailedNotFound(replies[1]) /\ FailedNotFound(replies[2])))
           => outcome.kind = "raise"

\* C22: in full mode a log served with status 200, by the primary or by the
\* fallback endpoint, is returned whole as content together with the number
\* of its lines as totalLines.
C22_FullResultOnBothPaths ==
    (LogServed /\ ~tailRequested(args.tail, args.lineCount)) =>
        /\ outcome.kind = "return"
        /\ outcome.value.content = replies[Len(replies)].body
        /\ "meta" \in outcome.value.fields
        /\ outcome.value.totalLines = Len(Split(replies[Len(replies)].body, "\n"))

----------------------------------------------------------------------------
(* listProjectHierarchy: the requests in flight                            *)

\* the project requests handed to the transport and not yet answered
InFlight == Len(sent) - Len(replies)

\* C23: during listProjectHierarchy at most one project request is in flight
\* at any time (the requests for the children of a project are issued one
\* after another, each awaited before the next).
C23_OneRequestInFlight ==
    args.op = "listProjectHierarchy" =>
        /\ InFlight <= 1
        /\ pc = "hierarchy" => Cardinality(held.outstanding) <= 1

----------------------------------------------------------------------------
(* The walk specification: one listProjectHierarchy call against a server  *)
(* whose projects each list at most one child, which may be any project of *)
(* the server, itself or an ancestor included; the server answers the same *)
(* project in the same way every time.  The walk keeps no record of the    *)
(* projects it has fetched, so here calls, sent and replies hold those of  *)
(* the last step only and the state is what the walk holds: the bodies     *)
(* fetched and the requests in flight.                                     *)

WalkProjects == { <<"a">>, <<"b">>, <<"c">> }

\* what the server can answer to the get of project id
WalkReplies(id) ==
    LET bodies == {ProjectBody(id, "array", <<k>>) : k \in WalkProjects \cup {id}}
                    \cup {ProjectBody(id, "single", <<k>>) : k \in WalkProjects}
                    \cup {ProjectBody(id, "array", <<>>),
                          ProjectBody(id, "absent", <<>>)}
        known == {b \in held.bodies : b.id = id}
    IN {TransportFailure}
         \cup {Response(200, "undefined", body) :
                  body \in (IF known = {} THEN bodies ELSE known)}

\* the step with the record of the last step only
walk_get(id, reply) == fetchProjectRecursive(id, reply, <<>>, <<>>, <<>>)

NextWalk ==
    \/ \E rootProjectId \in {Undefined, Str(<<"a">>)} :
          listProjectHierarchy(rootProjectId)
    \/ \E id \in (IF pc = "hierarchy" THEN held.outstanding ELSE {}) :
          \E reply \in WalkReplies(id) : walk_get(id, reply)

\* every request is answered or fails in the end (the transport has a
\* timeout of 30 seconds), so the walk always takes its next step
FairWalk == Idle /\ [][NextWalk]_vars /\ WF_vars(NextWalk)

\* C24: listProjectHierarchy terminates for every server hierarchy, one in
\* which a project is its own descendant included.
C24_WalkTerminates == (args.op = "listProjectHierarchy") ~> (pc = "done")

----------------------------------------------------------------------------
(* The teamcity tool handler, cancel build with params.all                 *)
(* (src/src/index.ts).  held.builds are the ids of the builds of the queue *)
(* fetched, held.next is the index of the build the loop is at, and        *)
(* held.results are the values its awaits of cancelBuild gave (the handler *)
(* does not look at them).                                                 *)

BuildQueueEndpoint == <<"/","b","u","i","l","d","Q","u","e","u","e">>

\* the handler is in its loop over the builds of the queue
InCancelAll == "builds" \in DOMAIN held

\* the handler up to the await of teamCityClient.get('/buildQueue')
cancelAll ==
    /\ pc = "idle"
    /\ ~InCancelAll
    /\ args' = [op |-> "cancelAll"]
    /\ pc' = "cancelAll_queue"
    /\ calls' = Append(calls, Call("get", BuildQueueEndpoint))
    /\ sent' = Append(sent, Req("GET", BuildQueueEndpoint, sanitizeParams(Undefined)))
    /\ UNCHANGED <<replies, held, outcome>>

\* the result of the handler: { cancelled: builds.length, builds }
cancelAllResult(builds) ==
    ReturnValue("cancelAll", [cancelled |-> Len(builds), builds |-> builds])

\* the queue is answered: builds = queued?.build || [], whose ids are the
\* body of the reply; the loop starts with the first build
cancelAll_queue(reply) ==
    /\ pc = "cancelAll_queue"
    /\ replies' = Append(replies, reply)
    /\ UNCHANGED <<args, calls, sent>>
    /\ IF ~Resolves(reply)
       THEN /\ pc' = "handled"
            /\ outcome' = Raise(handleSecureError(reply, Len(calls)))
            /\ held' = held
       ELSE LET builds == reply.body
            IN /\ held' = [error |-> NoError, cancelError |-> NoError,
                           builds |-> builds, next |-> 1, results |-> <<>>]
               /\ IF builds = <<>>
                  THEN pc' = "handled" /\ outcome' = cancelAllResult(builds)
                  ELSE pc' = "idle" /\ outcome' = outcome

\* for (const build of builds) await teamCityClient.cancelBuild(build.id):
\* the call of cancelBuild for the build the loop is at
cancelAll_call ==
    /\ InCancelAll
    /\ held.next <= Len(held.builds)
    /\ cancelBuild(held.builds[held.next], Undefined)

\* the await of cancelBuild settles: a value lets the loop go on to the next
\* build and, after the last one, the handler returns; an error is not caught
\* in the handler, which ends with it
cancelAll_await ==
    /\ pc = "done"
    /\ InCancelAll
    /\ UNCHANGED <<args, calls, sent, replies>>
    /\ IF outcome.kind = "raise"
       THEN /\ pc' = "handled"
            /\ UNCHANGED <<held, outcome>>
       ELSE LET next == held.next + 1
            IN /\ held' = [held EXCEPT !.next = next,
                                       !.results = Append(@, outcome)]
               /\ IF next > Len(held.builds)
                  THEN pc' = "handled" /\ outcome' = cancelAllResult(held.builds)
                  ELSE pc' = "idle" /\ outcome' = Pending

----------------------------------------------------------------------------
(* The cancel-all specification: one cancel action with params.all against *)
(* a queue of at most MaxQueued builds, each in any state by the time its  *)
(* cancelBuild fetches it.                                                 *)

MaxQueued == 2

QueuedBuildIds == [i \in 1..MaxQueued |-> NatToString(i)]

\* the answers to the get of the queue: a failure, a queue of 0..MaxQueued
\* builds, or an error response whose body has no build member
QueueReplies ==
    {TransportFailure}
      \cup {Response(200, "undefined", SubSeq(QueuedBuildIds, 1, n)) : n \in 0..MaxQueued}
      \cup {Response(status, "undefined", <<>>) : status \in Statuses \ {200}}

NextCancelAll ==
    \/ cancelAll
    \/ \E reply \in QueueReplies : cancelAll_queue(reply)
    \/ cancelAll_call
    \/ \E reply \in BuildReplies : cancel_getBuild(reply)
    \/ \E reply \in PlainReplies : cancel_queue_delete(reply)
    \/ \E reply \in PlainReplies : cancel_post(reply)
    \/ \E reply \in BuildReplies : cancel_recheck(reply)
    \/ \E reply \in PlainReplies : cancel_catch_delete(reply)
    \/ cancelAll_await

SpecCancelAll == Idle /\ [][NextCancelAll]_vars

\* the handler has ended, with a result or with an error
CancelAllEnded == args.op # "none" /\ pc = "handled"

\* a cancel was attempted for the build: cancelBuild asked for its state
CancelAttempted(buildId) ==
    \E i \in 1..Len(calls) : calls[i] = Call("get", getBuildEndpoint(buildId))

\* C25: in cancel-all at most one request of a cancel is in flight at any
\* time, and when the handler has ended a cancel was attempted for every
\* build of the queue it fetched, whether or not an earlier cancel failed.
C25_EveryBuildAttempted ==
    /\ Len(sent) - Len(replies) <= 1
    /\ (CancelAllEnded /\ InCancelAll) =>
          \A i \in 1..Len(held.builds) : CancelAttempted(held.builds[i])

\* the awaits of cancelBuild that gave a success: true of delete, or a result
\* with success: true
Succeeded(results) == {i \in 1..Len(results) : results[i].success}

\* C29: the cancelled number of the result of cancel-all is the number of
\* builds whose cancelBuild gave a success; a build for which it gave
\* success=false is not counted.
C29_CancelledCountsSuccesses ==
    (CancelAllEnded /\ outcome.kind = "return") =>
        outcome.value.cancelled =
            (IF InCancelAll THEN Cardinality(Succeeded(held.results)) ELSE 0)

----------------------------------------------------------------------------
(* cancelBuild: a build observed as running                                *)

\* the cancel POST of a running build failed and the second fetch either
\* failed or reported the build as still running
StillRunningAfterFailedPost ==
    /\ FirstFetchReported("running")
    /\ Len(replies) >= 3
    /\ ~Resolves(replies[2])
    /\ (~Resolves(replies[3]) \/ replies[3].state = "running")

\* C28: for a build whose first fetch reported 'running', cancelBuild issues
\* no queue DELETE; and when its cancel POST failed and the second fetch
\* failed or still reported 'running', the call ends by raising, not by
\* returning a result.
C28_RunningNeverDeleted ==
    /\ FirstFetchReported("running") =>
          CallsOf("delete") = {} /\ SentOf("DELETE") = {}
    /\ (StillRunningAfterFailedPost /\ pc = "done") => outcome.kind = "raise"

----------------------------------------------------------------------------
(* listMutedTests                                                          *)

MutesEndpoint == <<"/","m","u","t","e","s">>
DefaultMuteFields ==
    <<"m","u","t","e","(","i","d",",","h","r","e","f",",","a","s","s","i",
          "g","n","m","e","n","t","(","t","e","x","t",",","u","s","e","r",
          ")",",","s","c","o","p","e","(","p","r","o","j","e","c","t",",",
          "b","u","i","l","d","T","y","p","e","s",")",",","t","a","r","g",
          "e","t","(","t","e","s","t","s",",","p","r","o","b","l","e","m",
          "s",")",",","r","e","s","o","l","u","t","i","o","n","(","t","y",
          "p","e",",","c","o","m","m","e","n","t",")",")">>
MaxMuteCount == 1000
DefaultMuteCount == 30

\* a || b
or(a, b) == IF falsy(a) THEN b ELSE a

\* the entries of locatorParts: the project filter, then the pagination
mutedLocatorParts(safeInput) ==
    (IF falsy(safeInput.projectId) THEN <<>>
     ELSE <<Field(<<"a","f","f","e","c","t","e","d","P","r","o","j","e","c","t">>,
                  Str(<<"(","i","d",":">> \o JsString(safeInput.projectId) \o <<")">>))>>)
    \o (IF falsy(safeInput.count) /\ falsy(safeInput.pageSize) /\ falsy(safeInput.all)
        THEN <<>>
        ELSE <<Field(<<"c","o","u","n","t">>,
                     IF ~falsy(safeInput.all) THEN Num(MaxMuteCount)
                     ELSE or(safeInput.count, or(safeInput.pageSize, Num(DefaultMuteCount))))>>)

\* the locator: the caller's own, or the parts as key:value joined by commas
mutedLocator(safeInput) ==
    IF ~falsy(safeInput.locator) THEN safeInput.locator.s
    ELSE LET entries == SelectSeq(mutedLocatorParts(safeInput),
                                  LAMBDA e : e.v.t # "undefined")
         IN Join([i \in 1..Len(entries) |->
                     entries[i].k \o <<":">> \o JsString(entries[i].v)], <<",">>)

\* listMutedTests up to the await of its get
listMutedTests(params) ==
    LET locator == mutedLocator(params)
    IN /\ pc = "idle"
       /\ args' = [op |-> "listMutedTests", params |-> params]
       /\ pc' = "mutes_get"
       /\ calls' = Append(calls, Call("get", MutesEndpoint))
       /\ sent' = Append(sent, Req("GET", MutesEndpoint,
                     sanitizeParams(Obj(<<
                         Field(<<"l","o","c","a","t","o","r">>, or(Str(locator), Undefined)),
                         Field(<<"f","i","e","l","d","s"
                               >>, or(params.fields, Str(DefaultMuteFields)))>>))))
       /\ UNCHANGED <<replies, held, outcome>>

\* the get of /mutes settles: the mutes of the body with the project filter,
\* or the error re-thrown
mutes_get(reply) ==
    /\ pc = "mutes_get"
    /\ replies' = Append(replies, reply)
    /\ IF Resolves(reply)
       THEN Finish(ReturnValue("mutes",
                       [mutes |-> reply.body,
                        projectFilter |-> or(args.params.projectId, Null)]),
                   calls, sent)
       ELSE Finish(Raise(handleSecureError(reply, Len(calls))), calls, sent)

----------------------------------------------------------------------------
(* The muted-tests specification: one listMutedTests call with any of the  *)
(* parameters the method reads.                                            *)

MutedTestsParams ==
    [locator : {Undefined, Str(<<>>), Str(<<"c","o","u","n","t",":","5","0","0","0">>),
                Str(<<"a","f","f","e","c","t","e","d","P","r","o","j","e",
                      "c","t",":","(","i","d",":","X",")">>)},
     projectId : {Undefined, Str(<<"P","1">>)},
     count : {Undefined, Num(0), Num(10), Num(MaxMuteCount), Num(MaxMuteCount + 1),
              Num(5000)},
     pageSize : {Undefined, Num(50), Num(2000)},
     all : {Undefined, Bool(FALSE), Bool(TRUE)},
     fields : {Undefined, Str(<<"m","u","t","e","(","i","d",")">>)}]

NextMutes ==
    \/ \E params \in MutedTestsParams : listMutedTests(params)
    \/ \E reply \in PlainReplies : mutes_get(reply)

SpecMutes == Idle /\ [][NextMutes]_vars

\* the value of the field of an object, undefined when it has none
FieldOf(object, key) ==
    IF \E i \in 1..Len(object.kids) : object.kids[i].k = key
    THEN object.kids[CHOOSE i \in 1..Len(object.kids) : object.kids[i].k = key].v
    ELSE Undefined

\* the number a string of digits denotes
RECURSIVE ParseNat(_)
ParseNat(s) ==
    IF s = <<>> THEN 0
    ELSE 10 * ParseNat(SubSeq(s, 1, Len(s) - 1))
           + (CHOOSE d \in 0..9 : DigitChars[d + 1] = s[Len(s)])

\* the values of the count dimensions of a locator
CountsOf(locator) ==
    LET parts == Split(locator, ",")
    IN {ParseNat(SubSeq(parts[i], Len(<<"c","o","u","n","t",":">>) + 1, Len(parts[i]))) :
           i \in {j \in 1..Len(parts) :
                     /\ Len(parts[j]) > Len(<<"c","o","u","n","t",":">>)
                     /\ SubSeq(parts[j], 1, Len(<<"c","o","u","n","t",":"
                           >>)) = <<"c","o","u","n","t",":">>
                     /\ \A h \in (Len(<<"c","o","u","n","t",":">>) + 1)..Len(parts[j]) :
                           parts[j][h] \in Range(DigitChars)}}

\* C26: the locator listMutedTests sends has no count above 1000 when the
\* caller gave no raw locator, whatever all, count and pageSize are; and it
\* is the raw locator, unchanged, when the caller gave one.
C26_MutedCountCapped ==
    (args.op = "listMutedTests") =>
        LET locator == FieldOf(sent[1].data, <<"l","o","c","a","t","o","r">>)
        IN IF falsy(args.params.locator)
           THEN locator.t = "string" => \A n \in CountsOf(locator.s) : n <= MaxMuteCount
           ELSE locator = args.params.locator

----------------------------------------------------------------------------
(* Build listing: the listBuilds handler of the teamcity tool               *)
(* (src/src/index.ts), listBuilds of the client and buildHighLevelLocator  *)

BuildsEndpoint == <<"/","b","u","i","l","d","s">>
HandlerBuildFields == <<"b","u","i","l","d","(","i","d",",","n","u","m","b",
      "e","r",",","s","t","a","t","u","s",",","s","t","a","t","e",",","b",
      "u","i","l","d","T","y","p","e","I","d",")">>
DefaultBuildListFields ==
    <<"b","u","i","l","d","(","i","d",",","b","u","i","l","d","T","y","p",
          "e","I","d",",","b","u","i","l","d","T","y","p","e","(","i","d",
          ",","p","r","o","j","e","c","t","I","d",")",",","n","u","m","b",
          "e","r",",","s","t","a","t","u","s",",","s","t","a","t","e",",",
          "s","t","a","t","u","s","T","e","x","t",",","w","e","b","U","r",
          "l",")">>
DefaultBuildCount == 5

\* a dimension of a locator made from a parameter: the name of the parameter,
\* the key of the dimension and what is written around the value
Dimension(param, key, open, close) ==
    [param |-> param, key |-> key, open |-> open, close |-> close]

\* if (params[param]) parts.push(`${key}:${open}${params[param]}${close}`),
\* for the dimensions in order
locatorParts(dimensions, params) ==
    LET present == SelectSeq(dimensions, LAMBDA d : ~falsy(params[d.param]))
    IN [i \in 1..Len(present) |->
           present[i].key \o <<":">> \o present[i].open
             \o JsString(params[present[i].param]) \o present[i].close]

\* the dimensions the handler makes, before its count
HandlerDimensions ==
    << Dimension("status", <<"s","t","a","t","u","s">>, <<>>, <<>>),
       Dimension("state", <<"s","t","a","t","e">>, <<>>, <<>>),
       Dimension("projectId", <<"p","r","o","j","e","c","t">>, <<"(","i","d",":">>, <<")">>),
       Dimension("branch", <<"b","r","a","n","c","h">>, <<>>, <<>>),
       Dimension("since", <<"s","i","n","c","e","D","a","t","e">>, <<>>, <<>>) >>

\* the dimensions of buildHighLevelLocator
HighLevelDimensions ==
    << Dimension("projectId", <<"p","r","o","j","e","c","t">>, <<"(","i","d",":">>, <<")">>),
       Dimension("buildTypeId", <<"b","u","i","l","d","T","y","p","e">>, <<
             "(","i","d",":">>, <<")">>),
       Dimension("status", <<"s","t","a","t","u","s">>, <<>>, <<>>),
       Dimension("count", <<"c","o","u","n","t">>, <<>>, <<>>),
       Dimension("state", <<"s","t","a","t","e">>, <<>>, <<>>),
       Dimension("branchName", <<"b","r","a","n","c","h">>, <<>>, <<>>),
       Dimension("agentName", <<"a","g","e","n","t">>, <<"(","n","a","m","e",":">>, <<")">>),
       Dimension("user", <<"u","s","e","r">>, <<"(","u","s","e","r","n","a","m","e",":">>, <<")">>),
       Dimension("sinceDate", <<"s","i","n","c","e","D","a","t","e">>, <<>>, <<>>),
       Dimension("untilDate", <<"u","n","t","i","l","D","a","t","e">>, <<>>, <<>>),
       Dimension("tags", <<"t","a","g","s">>, <<>>, <<>>),
       Dimension("start", <<"s","t","a","r","t">>, <<>>, <<>>) >>

buildHighLevelLocator(params) == Join(locatorParts(HighLevelDimensions, params), <<",">>)

\* the locator of the handler: its parts, then count:${params.count || 5}
handlerLocator(params) ==
    Join(Append(locatorParts(HandlerDimensions, params),
                <<"c","o","u","n","t",":">> \o JsString(or(params.count, Num(DefaultBuildCount)))),
         <<",">>)

\* a build-listing operation up to the await of its get of /builds
listing(op, params, locator, fields) ==
    /\ pc = "idle"
    /\ args' = [op |-> op, params |-> params]
    /\ pc' = "builds_get"
    /\ calls' = Append(calls, Call("get", BuildsEndpoint))
    /\ sent' = Append(sent, Req("GET", BuildsEndpoint,
                  sanitizeParams(Obj(<<Field(<<"l","o","c","a","t","o","r">>, Str(locator)),
                                       Field(<<"f","i","e","l","d","s">>, fields)>>))))
    /\ UNCHANGED <<replies, held, outcome>>

\* listBuilds of the tool handler
listBuilds(params) ==
    listing("listBuilds", params, handlerLocator(params), Str(HandlerBuildFields))

\* TeamCityClient.listBuilds: params.locator || this.buildHighLevelLocator(params)
client_listBuilds(params) ==
    listing("client.listBuilds", params,
            IF ~falsy(params.locator) THEN JsString(params.locator)
            ELSE buildHighLevelLocator(params),
            or(params.fields, Str(DefaultBuildListFields)))

\* the get of /builds settles
builds_get(reply) ==
    /\ pc = "builds_get"
    /\ replies' = Append(replies, reply)
    /\ IF Resolves(reply)
       THEN Finish(ReturnValue("builds", reply.body), calls, sent)
       ELSE Finish(Raise(handleSecureError(reply, Len(calls))), calls, sent)

----------------------------------------------------------------------------
(* The build-listing specification: one call of the handler or of the      *)
(* client method, with filter values that are plain or that hold the       *)
(* characters of the locator syntax.                                       *)

ListParamNames ==
    {"locator", "fields", "status", "state", "projectId", "branch", "since", "count",
     "buildTypeId", "branchName", "agentName", "user", "sinceDate", "untilDate",
     "tags", "start"}

NoListParams == [name \in ListParamNames |-> Undefined]

HandlerListParams ==
    {[NoListParams EXCEPT !["status"] = status, !["state"] = state,
                          !["projectId"] = projectId, !["branch"] = branch,
                          !["since"] = since, !["count"] = count,
                          !["locator"] = locator] :
        status \in {Undefined, Str(<<"F","A","I","L","U","R","E">>), Str(<<
              "F","A","I","L","U","R","E",",","c","o","u","n","t",":","1",
              "0","0","0">>)},
        state \in {Undefined, Str(<<"r","u","n","n","i","n","g">>)},
        projectId \in {Undefined, Str(<<"P","1">>), Str(<<"P",")",",","t","a","g",":","(","x">>)},
        branch \in {Undefined, Str(<<"a",":","b">>)},
        since \in {Undefined, Str(<<"2","0","2","4","0","1","0","1","T","0",
              "0","0","0","0","0","+","0","0","0","0">>)},
        count \in {Undefined, Num(0), Num(20)},
        locator \in {Undefined, Str(<<"s","t","a","t","u","s",":","S","U","C","C","E","S","S">>)}}

\* one more parameter of the client method, or none
OtherListParams ==
    { <<"start", Undefined>>, <<"buildTypeId", Str(<<"B","t","1">>)>>, <<
          "state", Str(<<"q","u","e","u","e","d">>)>>,
      <<"branchName", Str(<<"m","a","i","n">>)>>, <<"agentName", Str(<<"A",
            ")",",","u","s","e","r",":","(","u","s","e","r","n","a","m","e",
            ":","u">>)>>,
      <<"user", Str(<<"u">>)>>, <<"sinceDate", Str(<<"2","0","2","4","0",
            "1","0","1","T","0","0","0","0","0","0","+","0","0","0","0"
            >>)>>,
      <<"untilDate", Str(<<"2","0","2","5","0","1","0","1","T","0","0","0",
            "0","0","0","+","0","0","0","0">>)>>, <<"tags", Str(<<"t","1"
            >>)>>,
      <<"start", Num(10)>> }

ClientListParams ==
    {[NoListParams EXCEPT !["locator"] = locator, !["fields"] = fields,
                          !["status"] = status, !["projectId"] = projectId,
                          !["count"] = count, ![other[1]] = other[2]] :
        locator \in {Undefined, Str(<<>>), Str(<<"s","t","a","t","u","s",
              ":","S","U","C","C","E","S","S">>), Str(<<"c","o","u","n","t",
              ":","1">>)},
        fields \in {Undefined, Str(<<"b","u","i","l","d","(","i","d",")">>)},
        status \in {Undefined, Str(<<"F","A","I","L","U","R","E">>)},
        projectId \in {Undefined, Str(<<"P","1">>)},
        count \in {Undefined, Num(3)},
        other \in OtherListParams}

NextListBuilds ==
    \/ \E params \in HandlerListParams : listBuilds(params)
    \/ \E params \in ClientListParams : client_listBuilds(params)
    \/ \E reply \in PlainReplies : builds_get(reply)

SpecListBuilds == Idle /\ [][NextListBuilds]_vars

ListingOps == {"listBuilds", "client.listBuilds"}

\* the locator of the request of a build listing
ListingLocator == FieldOf(sent[1].data, <<"l","o","c","a","t","o","r">>)

\* s starts with prefix
StartsWith(s, prefix) == Len(s) >= Len(prefix) /\ SubSeq(s, 1, Len(prefix)) = prefix

\* C27: the locator a build listing sends has a count dimension; it has
\* count:5 when the caller gave neither a count nor a raw locator; and when
\* the caller gave a raw locator, the locator sent is that one (before any
\* count), not one made from the structured parameters.
C27_CountAndRawLocator ==
    (args.op \in ListingOps) =>
        /\ ListingLocator.t = "string"
        /\ CountsOf(ListingLocator.s) # {}
        /\ (falsy(args.params.count) /\ falsy(args.params.locator)) =>
              DefaultBuildCount \in CountsOf(ListingLocator.s)
        /\ ~falsy(args.params.locator) =>
              StartsWith(ListingLocator.s, args.params.locator.s)

\* the parts of a locator: it is cut at the commas outside parentheses
TopLevelParts(locator) ==
    LET depth(i) == Cardinality({j \in 1..(i - 1) : locator[j] = "("})
                      - Cardinality({j \in 1..(i - 1) : locator[j] = ")"})
        at == SelectSeq(Indices(Len(locator)),
                        LAMBDA i : locator[i] = "," /\ depth(i) = 0)
    IN IF locator = <<>> THEN <<>>
       ELSE [k \in 1..(Len(at) + 1) |->
                SubSeq(locator, IF k = 1 THEN 1 ELSE at[k - 1] + 1,
                                IF k = Len(at) + 1 THEN Len(locator) ELSE at[k] - 1)]

\* the keys of the dimensions of a locator, in order
DimensionKeys(locator) ==
    LET parts == TopLevelParts(locator)
    IN [i \in 1..Len(parts) |-> Split(parts[i], ":")[1]]

\* the keys of the dimensions the structured parameters choose
ChosenKeys(op, params) ==
    LET dimensions == IF op = "listBuilds" THEN HandlerDimensions ELSE HighLevelDimensions
        present == SelectSeq(dimensions, LAMBDA d : ~falsy(params[d.param]))
    IN [i \in 1..Len(present) |-> present[i].key]
         \o (IF op = "listBuilds" THEN <<<<"c","o","u","n","t">>>> ELSE <<>>)

\* C30: the locator a build listing makes from structured parameters has
\* exactly the dimensions those parameters choose, whatever characters the
\* values hold: no value adds a dimension of its own.
C30_ValuesAddNoDimension ==
    (args.op \in ListingOps /\ (args.op = "listBuilds" \/ falsy(args.params.locator))) =>
        /\ ListingLocator.t = "string"
        /\ DimensionKeys(ListingLocator.s) = ChosenKeys(args.op, args.params)

====
